---------------------------- MODULE Spec2Model ----------------------------
(***************************************************************************)
(* Model of the legal-document pipeline: main.py, DocumentOrchestrator,    *)
(* the LangGraph stage functions of state_graph.py and VersioningAgent.    *)
(*                                                                         *)
(* The specifications of the module:                                       *)
(*   Spec            one run of main: argument check, folder check,        *)
(*                   orchestrator, the six graph nodes in edge order,      *)
(*                   process_carpeta's return value and the exit code.     *)
(*   SpecVersioning  VersioningAgent.assign_versions and                   *)
(*                   assign_versions_from_ocr applied to bounded inputs.   *)
(*   SpecReconciler  one call of ReportGeneratorAgent's reconciler,        *)
(*                   document by document.                                 *)
(*   SpecDiffer      VersionComparerAgent.comparar_versiones and the       *)
(*                   comparison node on the same inputs.                   *)
(*   SpecOcr         paso_1_ocr: OCRAgent.analyze_folder file by file,     *)
(*                   with the cache and the retry loop.                    *)
(*   SpecLegalization  LegalizationAgent.extract_from_documents, code by   *)
(*                   code and candidate by candidate.                      *)
(***************************************************************************)
EXTENDS Integers, Sequences, FiniteSets, TLC

(***************************************************************************)
(* Bounds                                                                  *)
(***************************************************************************)
\* largest number of records OCR returns in a pipeline run
MaxFiles == 2
\* largest number of documents handed to the version assigner
MaxDocs == 3

(***************************************************************************)
(* Python values                                                           *)
(***************************************************************************)
None == "None"
\* {} : the empty dict
EmptyDict == <<>>

\* bool(x) of a dict or a list
Truthy(x) == DOMAIN x # {}

\* file names and their position in Python's string order
Filenames == {"A", "B", "C"}
FilenameOrd == [f \in Filenames |-> CASE f = "A" -> 1 [] f = "B" -> 2 [] f = "C" -> 3]

(***************************************************************************)
(* Date strings.  A date string is kept as the pieces the code looks at:   *)
(* kind "dmy" is text holding digits-digits-4 digits (pad tells whether    *)
(* day and month are zero padded), "NO_FECHA" is the extractor's sentinel, *)
(* "text" is any other non-empty answer, "empty" is "".                    *)
(***************************************************************************)
Fecha(k, d, m, y, p) == [kind |-> k, d |-> d, m |-> m, y |-> y, pad |-> p]
NO_FECHA == Fecha("NO_FECHA", 0, 0, 0, TRUE)
FechaLibre == Fecha("text", 0, 0, 0, TRUE)
FechaVacia == Fecha("empty", 0, 0, 0, TRUE)
F_10_01_2020 == Fecha("dmy", 10, 1, 2020, TRUE)
F_05_03_2019 == Fecha("dmy", 5, 3, 2019, TRUE)
F_5_3_2019 == Fecha("dmy", 5, 3, 2019, FALSE)
F_31_02_2020 == Fecha("dmy", 31, 2, 2020, TRUE)

\* calendar of datetime.strptime
IsLeap(y) == (y % 4 = 0 /\ y % 100 # 0) \/ y % 400 = 0
DaysInMonth(m, y) ==
    IF m = 2 THEN (IF IsLeap(y) THEN 29 ELSE 28)
    ELSE IF m \in {4, 6, 9, 11} THEN 30 ELSE 31

\* datetime.strptime(s, "%d-%m-%Y") succeeds
StrptimeOk(f) ==
    /\ f.kind = "dmy"
    /\ f.m \in 1..12
    /\ f.d >= 1
    /\ f.d <= DaysInMonth(f.m, f.y)

\* versioning_agent._to_dt : the datetime as <<year, month, day>>; NoDt is
\* the None of a string that does not parse
NoDt == <<>>
_to_dt(f) == IF StrptimeOk(f) THEN <<f.y, f.m, f.d>> ELSE NoDt

(***************************************************************************)
(* list.sort(key=...) : Python's sort is stable.  Keys are tuples of       *)
(* integers of one length, compared as Python compares tuples.             *)
(***************************************************************************)
KeyLess(a, b) ==
    \E i \in 1..Len(a) :
        /\ a[i] < b[i]
        /\ \A j \in 1..(i - 1) : a[j] = b[j]

\* x goes behind every element whose key is not greater than its own
InsertByKey(t, x) ==
    LET p == Cardinality({i \in 1..Len(t) : ~KeyLess(x.k, t[i].k)})
    IN  SubSeq(t, 1, p) \o <<x>> \o SubSeq(t, p + 1, Len(t))

RECURSIVE SortKeyed(_)
SortKeyed(s) ==
    IF s = <<>> THEN <<>>
    ELSE InsertByKey(SortKeyed(SubSeq(s, 1, Len(s) - 1)), s[Len(s)])

\* keys[i] is the key of s[i]
SortBy(s, keys) ==
    LET keyed == [i \in 1..Len(s) |-> [k |-> keys[i], v |-> s[i]]]
        sorted == SortKeyed(keyed)
    IN  [i \in 1..Len(s) |-> sorted[i].v]

\* variant: enumerate without start=1
Enumerar_from_zero(ordenados) ==
    [i \in 1..Len(ordenados) |->
        [filename |-> ordenados[i].filename,
         fecha |-> ordenados[i].fecha,
         version |-> i - 1]]

\* for idx, d in enumerate(ordenados, start=1): {filename, fecha, version}
Enumerar(ordenados) ==
    [i \in 1..Len(ordenados) |->
        [filename |-> ordenados[i].filename,
         fecha |-> ordenados[i].fecha,
         version |-> i]]

\* the keys of grupos (dict.setdefault(cat, []).append(doc)), from the
\* category of each document
Categorias(cats) == {cats[i] : i \in 1..Len(cats)}


(***************************************************************************)
(* VersioningAgent.assign_versions                                         *)
(*   classification_results : items [filename, clasificacion, fecha];      *)
(*       clasificacion = None stands for an item without that key          *)
(*   date_results : items [filename, fecha_mas_antigua]                    *)
(***************************************************************************)
\* fechas_map.get(fn, {}).get("fecha_mas_antigua") : a later entry of
\* date_results replaces an earlier one of the same file
FechaMasAntigua(date_results, fn) ==
    LET idx == {i \in 1..Len(date_results) : date_results[i].filename = fn}
    IN  IF idx = {} THEN FechaVacia
        ELSE date_results[CHOOSE i \in idx : \A j \in idx : j <= i].fecha_mas_antigua

\* fm.get("fecha_mas_antigua") or item.get("fecha") or ""
FechaDeItem(item, date_results) ==
    LET fm == FechaMasAntigua(date_results, item.filename)
    IN  IF fm # FechaVacia THEN fm ELSE item.fecha

\* item.get("clasificacion", "otros")
ClasificacionDeItem(item) ==
    IF item.clasificacion = None THEN "otros" ELSE item.clasificacion

\* grupos[cat] : the {filename, fecha} entries of one category, in input order
GruposAV(classification_results, date_results, cat) ==
    LET mine == SelectSeq(classification_results,
                          LAMBDA it : ClasificacionDeItem(it) = cat)
    IN  [i \in 1..Len(mine) |->
            [filename |-> mine[i].filename,
             fecha |-> FechaDeItem(mine[i], date_results)]]

\* variant: the sort key without the filename tie-break
KeyFechaFilename_no_tiebreak(d) == _to_dt(d.fecha) \o <<0>>

\* key=lambda d: (_to_dt(d["fecha"]), d["filename"])
KeyFechaFilename(d) == _to_dt(d.fecha) \o <<FilenameOrd[d.filename]>>

\* key=lambda d: d["filename"]
KeyFilename(d) == <<FilenameOrd[d.filename]>>

\* con_fecha sorted by (date, filename), then sin_fecha sorted by filename
OrdenarAV(docs) ==
    LET con_fecha == SelectSeq(docs, LAMBDA d : _to_dt(d.fecha) # NoDt)
        sin_fecha == SelectSeq(docs, LAMBDA d : _to_dt(d.fecha) = NoDt)
    IN  SortBy(con_fecha, [i \in 1..Len(con_fecha) |-> KeyFechaFilename(con_fecha[i])])
        \o SortBy(sin_fecha, [i \in 1..Len(sin_fecha) |-> KeyFilename(sin_fecha[i])])

assign_versions(classification_results, date_results) ==
    [cat \in Categorias([i \in 1..Len(classification_results) |->
                            ClasificacionDeItem(classification_results[i])]) |->
        Enumerar(OrdenarAV(GruposAV(classification_results, date_results, cat)))]

(***************************************************************************)
(* VersioningAgent.assign_versions_from_ocr                                *)
(*   ocr_results : records [filename, text]                                *)
(*   llm : for each record, what the two chains answer for its text:       *)
(*       [raises, categoria, fecha_texto]                                  *)
(***************************************************************************)
\* classification_chain.invoke(...).strip().lower()
RawLabels == {"escritura", " ESCRITURA", "publicacion", "contrato"}
StripLower(raw) == IF raw = " ESCRITURA" THEN "escritura" ELSE raw

\* lines 135-148: NO_FECHA stays, a dd-mm-yyyy match is zero padded, any
\* other answer is kept as it is
ValidarFecha(fecha_texto) ==
    IF fecha_texto = NO_FECHA THEN NO_FECHA
    ELSE IF fecha_texto.kind = "dmy" THEN [fecha_texto EXCEPT !.pad = TRUE]
    ELSE fecha_texto

\* one pass of the loop over ocr_results, with its except branch
ProcesarDocumento(item, o) ==
    IF o.raises
    THEN [filename |-> item.filename, categoria |-> "otros",
          fecha |-> NO_FECHA, text |-> item.text]
    ELSE [filename |-> item.filename, categoria |-> StripLower(o.categoria),
          fecha |-> ValidarFecha(o.fecha_texto), text |-> item.text]

\* variant: the except branch only logs, the document is not appended
documentos_procesados_drop_failed(ocr_results, llm) ==
    LET todos == [i \in 1..Len(ocr_results) |->
                     [doc |-> ProcesarDocumento(ocr_results[i], llm[i]),
                      raised |-> llm[i].raises]]
        kept == SelectSeq(todos, LAMBDA e : ~e.raised)
    IN  [i \in 1..Len(kept) |-> kept[i].doc]

documentos_procesados(ocr_results, llm) ==
    [i \in 1..Len(ocr_results) |-> ProcesarDocumento(ocr_results[i], llm[i])]

\* parse_fecha : the datetime as <<year, month, day, time>>; datetime.max is
\* the last instant of 31-12-9999
parse_fecha(f) == IF StrptimeOk(f) THEN <<f.y, f.m, f.d, 0>> ELSE <<9999, 12, 31, 1>>

\* key=lambda d: parse_fecha(d["fecha"])
KeyParseFecha(d) == parse_fecha(d.fecha)

\* con_fecha sorted by parse_fecha alone, then sin_fecha sorted by filename
OrdenarOCR(docs) ==
    LET con_fecha == SelectSeq(docs, LAMBDA d : d.fecha # NO_FECHA)
        sin_fecha == SelectSeq(docs, LAMBDA d : d.fecha = NO_FECHA)
    IN  SortBy(con_fecha, [i \in 1..Len(con_fecha) |-> KeyParseFecha(con_fecha[i])])
        \o SortBy(sin_fecha, [i \in 1..Len(sin_fecha) |-> KeyFilename(sin_fecha[i])])

CategoriaDeDoc(d) == d.categoria

assign_versions_from_ocr(ocr_results, llm) ==
    LET procesados == documentos_procesados(ocr_results, llm)
    IN  [cat \in Categorias([i \in 1..Len(procesados) |->
                                CategoriaDeDoc(procesados[i])]) |->
            Enumerar(OrdenarOCR(SelectSeq(procesados,
                                          LAMBDA d : d.categoria = cat)))]

(***************************************************************************)
(* State                                                                   *)
(***************************************************************************)
VARIABLES
    pc,            \* position of the run of main
    argv,          \* the positional arguments of main.py
    state,         \* the ProcessingState handed from node to node
    entered,       \* the graph nodes invoked so far, in order
    artifacts,     \* the nodes whose JSON artifact has been written
    first_error,   \* the first non-empty error a node recorded
    results,       \* the dict process_carpeta returned, None before
    exit_code,     \* the exit code of main, -1 while it runs
    critical,      \* main's except branch was taken
    write_failed,  \* the node whose write of the artifact raised, when
                   \* that is how the latest node call ended
    vpc,           \* position of the version assigner's caller
    in_classification, \* classification_results given to assign_versions
    in_dates,      \* date_results given to assign_versions
    in_ocr,        \* ocr_results given to assign_versions_from_ocr
    in_llm,        \* the answers of the two chains, one per record
    versionado     \* the dict the assigner returned

\* one call of the reconciler of ReportGeneratorAgent
VARIABLES
    rpc,           \* position of the reconciler call
    r_kind,        \* "seccion" or "encabezado": which of the two is called
    r_docs,        \* versioning_results.get("escritura", [])
    r_ocr,         \* ocr_results
    r_llm,         \* what the model answers for the text of each file
    r_sorted,      \* escritura_docs_sorted
    r_i,           \* position of the loop over escritura_docs_sorted[1:]
    r_result,      \* result (encabezado in the encabezado variant)
    r_empty,       \* empty_fields
    r_calls        \* the files whose text was sent to the model, in order

\* one call of the version comparer
VARIABLES
    dpc,           \* position of the comparer's caller
    d_versioning,  \* versioning_results
    d_ocr,         \* ocr_results
    d_diffs,       \* the model's answer for each pair of each category
    d_out          \* the comparisons handed back

\* one call of paso_1_ocr: OCRAgent.analyze_folder over a folder
VARIABLES
    opc,           \* position inside analyze_folder / _analyze_file
    o_isdir,       \* os.path.isdir(folder_path)
    o_files,       \* the files os.walk yields, in order
    o_cache,       \* the cache directory: sha1 -> pickled record
    o_idx,         \* the file analyze_folder is at
    o_attempt,     \* attempt of the retry loop
    o_delay,       \* delay, in seconds
    o_sleeps,      \* the time.sleep calls made for the current file
    o_fates,       \* how _analyze_file ended for each file so far
    o_results,     \* results
    o_events,      \* what happened with the cache, file by file
    o_state        \* the state paso_1_ocr returns

\* one call of LegalizationAgent.extract_from_documents
VARIABLES
    lpc,           \* position inside extract_from_documents
    l_escrituras,  \* versioning_results.get("escritura", [])
    l_ocr,         \* ocr_docs
    l_catalog,     \* code_catalog
    l_ci,          \* the code the outer loop is at
    l_cands,       \* candidates
    l_ki,          \* the candidate the inner loop is at
    l_best,        \* best
    l_sent,        \* the verifications made for the current code
    l_poderes,     \* poderes
    l_out          \* what extract_from_documents returned

pipeVars == <<pc, argv, state, entered, artifacts, first_error, results,
              exit_code, critical, write_failed>>
verVars == <<vpc, in_classification, in_dates, in_ocr, in_llm, versionado>>
recVars == <<rpc, r_kind, r_docs, r_ocr, r_llm, r_sorted, r_i, r_result,
             r_empty, r_calls>>

difVars == <<dpc, d_versioning, d_ocr, d_diffs, d_out>>
ocrVars == <<opc, o_isdir, o_files, o_cache, o_idx, o_attempt, o_delay,
             o_sleeps, o_fates, o_results, o_events, o_state>>

legVars == <<lpc, l_escrituras, l_ocr, l_catalog, l_ci, l_cands, l_ki, l_best,
             l_sent, l_poderes, l_out>>

vars == <<pipeVars, verVars, recVars, difVars, ocrVars, legVars>>

\* the variables an action of one component leaves alone
nonPipeVars == <<verVars, recVars, difVars, ocrVars, legVars>>
nonVerVars == <<pipeVars, recVars, difVars, ocrVars, legVars>>
nonRecVars == <<pipeVars, verVars, difVars, ocrVars, legVars>>
nonDifVars == <<pipeVars, verVars, recVars, ocrVars, legVars>>
nonOcrVars == <<pipeVars, verVars, recVars, difVars, legVars>>
nonLegVars == <<pipeVars, verVars, recVars, difVars, ocrVars>>

(***************************************************************************)
(* Environment of a pipeline run                                           *)
(***************************************************************************)
\* folders that can be named on the command line; "c1" exists under data/
Carpetas == {"c1", "nodir"}
DataFolders == {"c1"}

\* the cleaned text of an OCR record: empty or not
Texts == {"", "txt"}

\* sequences over S without a repeated element, up to n long
RECURSIVE SeqsNoRep(_, _)
SeqsNoRep(S, n) ==
    IF n = 0 THEN {<<>>}
    ELSE LET shorter == SeqsNoRep(S, n - 1)
         IN  shorter \cup
             {Append(qx[1], qx[2]) :
                 qx \in {c \in shorter \X S :
                            /\ Len(c[1]) = n - 1
                            /\ \A i \in 1..Len(c[1]) : c[1][i] # c[2]}}

\* what OCRAgent.analyze_folder can return for a folder of up to n files
\* with distinct names
OcrOutcomes(n) ==
    UNION {{[i \in 1..Len(q) |-> [filename |-> q[i], text |-> t[i]]] :
               t \in [1..Len(q) -> Texts]} : q \in SeqsNoRep(Filenames, n)}

\* the answers of the classification chain and the date chain for one record
LlmOutcomes(labels, fechas) ==
    {[raises |-> TRUE, categoria |-> None, fecha_texto |-> NO_FECHA]}
    \cup [raises : {FALSE}, categoria : labels, fecha_texto : fechas]

PipeLabels == {"escritura", "contrato"}
PipeFechas == {F_10_01_2020, NO_FECHA}

\* what the diff collaborator yields for one pair: a change list or the
\* fallback {"cambios": [], "resumen": ""}
DiffOutcomes == {"cambios", "fallback"}

\* the powers LegalizationAgent.extract_from_documents can report
PoderesOutcomes == {<<>>, <<"01">>}

(***************************************************************************)
(* state_graph.py                                                          *)
(***************************************************************************)
create_initial_state ==
    [ocr_results |-> <<>>,
     vectorization_results |-> EmptyDict,
     versioning_results |-> EmptyDict,
     comparison_results |-> EmptyDict,
     legalization_results |-> EmptyDict,
     report_results |-> EmptyDict,
     error |-> ""]

\* the messages the nodes put in state["error"]
ErrPaso1 == "Error en PASO 1"
MsgPaso2 == "No hay resultados de OCR para versionar documentos"
ErrPaso2 == "Error en PASO 2"
MsgPaso3 == "Faltan resultados (OCR o versionado) para vectorizar"
MsgPaso4 == "No hay resultados de versionado para comparar"
ErrPaso4 == "Error en PASO 4"
ErrPaso5 == "Error en PASO 5 (legalizacion)"
MsgPaso8 == "No hay resultados de versionado para generar informe"
ErrPaso8 == "Error en PASO 8"
ErrOrquestador == "Error en orquestador"

\* what a node call leaves behind: the state it returns, whether it wrote
\* its artifact, whether an exception left the node
NodeReturn(st, wrote) == [state |-> st, wrote |-> wrote, raised |-> FALSE]
NodeRaise(st) == [state |-> st, wrote |-> FALSE, raised |-> TRUE]

\* exc: an exception inside the try block (agent construction, the agent
\* call or the write of the artifact)
paso_1_ocr(st, exc, ocr) ==
    IF exc THEN NodeReturn([st EXCEPT !.error = ErrPaso1], FALSE)
    ELSE NodeReturn([st EXCEPT !.ocr_results = ocr], TRUE)

paso_2_versioning(st, exc, llm) ==
    IF ~Truthy(st.ocr_results)
    THEN NodeReturn([st EXCEPT !.error = MsgPaso2], FALSE)
    ELSE IF exc THEN NodeReturn([st EXCEPT !.error = ErrPaso2], FALSE)
    ELSE NodeReturn([st EXCEPT !.versioning_results =
                        assign_versions_from_ocr(st.ocr_results, llm)], TRUE)

\* no try block here: a failed write of the summary leaves the node
paso_3_vectorization(st, exc, extract_from_ocr) ==
    IF ~Truthy(st.ocr_results) \/ ~Truthy(st.versioning_results)
    THEN NodeReturn([st EXCEPT !.error = MsgPaso3], FALSE)
    ELSE IF exc THEN NodeRaise(st)
    ELSE NodeReturn([st EXCEPT !.vectorization_results =
                        [documentos_procesados |-> 0,
                         total_chunks |-> 0,
                         modo |-> IF extract_from_ocr THEN "OCR_DIRECTO"
                                  ELSE "SIN_VECTORIZACION"]], TRUE)

\* dict.get(key, default)
DictGet(d, key, default) == IF key \in DOMAIN d THEN d[key] ELSE default

\* {doc["filename"]: doc.get("text", "")}.get(filename, ""): a later record
\* of the same file name replaces an earlier one
OcrText(ocr_results, filename) ==
    LET idx == {i \in 1..Len(ocr_results) : ocr_results[i].filename = filename}
    IN  IF idx = {} THEN ""
        ELSE ocr_results[CHOOSE i \in idx : \A j \in idx : j <= i].text

\* key=lambda x: x.get("version", 0)
KeyVersion(d) == <<d.version>>

\* variant: a pair is compared whether or not OCR has both texts
ComparacionesEscritura_no_skip(escrituras_ordenadas, ocr_results, diffs) ==
    [i \in 1..(Len(escrituras_ordenadas) - 1) |->
        [categoria |-> "escritura",
         de |-> escrituras_ordenadas[i],
         a |-> escrituras_ordenadas[i + 1],
         cambios |-> diffs[i]]]

\* the loop of paso_4 over consecutive entries: a pair without the text of
\* one endpoint is skipped; diffs[i] is the collaborator's answer for pair i
ComparacionesEscritura(escrituras_ordenadas, ocr_results, diffs) ==
    LET n == Len(escrituras_ordenadas)
        par(i) ==
            [categoria |-> "escritura",
             de |-> escrituras_ordenadas[i],
             a |-> escrituras_ordenadas[i + 1],
             cambios |-> diffs[i],
             con_texto |->
                /\ OcrText(ocr_results, escrituras_ordenadas[i].filename) # ""
                /\ OcrText(ocr_results, escrituras_ordenadas[i + 1].filename) # ""]
        todos == [i \in 1..(n - 1) |-> par(i)]
        hechos == SelectSeq(todos, LAMBDA c : c.con_texto)
    IN  [i \in 1..Len(hechos) |->
            [categoria |-> hechos[i].categoria, de |-> hechos[i].de,
             a |-> hechos[i].a, cambios |-> hechos[i].cambios]]

paso_4_escritura_comparison(st, exc, diffs) ==
    IF ~Truthy(st.versioning_results)
    THEN NodeReturn([st EXCEPT !.error = MsgPaso4], FALSE)
    ELSE LET escrituras == DictGet(st.versioning_results, "escritura", <<>>)
         IN  IF ~Truthy(escrituras)
             THEN NodeReturn([st EXCEPT !.comparison_results = EmptyDict], FALSE)
             ELSE IF exc
             THEN NodeReturn([st EXCEPT !.error = ErrPaso4], FALSE)
             ELSE NodeReturn(
                    [st EXCEPT !.comparison_results =
                        [c \in {"escritura"} |->
                            ComparacionesEscritura(
                                SortBy(escrituras,
                                       [i \in 1..Len(escrituras) |->
                                           KeyVersion(escrituras[i])]),
                                                   st.ocr_results, diffs)]],
                    TRUE)

\* LegalizationAgent.extract_from_documents(only_latest_escritura=True);
\* poderes is the list the catalogue loop ends with
extract_from_documents(ocr_docs, versioning_results, poderes) ==
    LET escrituras == DictGet(versioning_results, "escritura", <<>>)
        ordenadas == SortBy(escrituras,
                            [i \in 1..Len(escrituras) |-> KeyVersion(escrituras[i])])
        base_doc == ordenadas[Len(ordenadas)]
    IN  IF ~Truthy(escrituras)
        THEN [documento_base |-> None, poderes |-> <<>>]
        ELSE IF OcrText(ocr_docs, base_doc.filename) = ""
        THEN [documento_base |-> base_doc, poderes |-> <<>>]
        ELSE [documento_base |-> base_doc, poderes |-> poderes]

\* variant: a node that succeeds hands back a state with a cleared error
paso_5_legalizacion_clears_error(st, exc, poderes) ==
    IF ~Truthy(st.ocr_results) \/ ~Truthy(st.versioning_results)
    THEN NodeReturn(st, FALSE)
    ELSE IF exc THEN NodeReturn([st EXCEPT !.error = ErrPaso5], FALSE)
    ELSE NodeReturn([st EXCEPT !.legalization_results =
                        extract_from_documents(st.ocr_results,
                                               st.versioning_results, poderes),
                     !.error = ""],
                    TRUE)

\* variant: the early return is also taken when there is no escritura
paso_5_legalizacion_skips_without_escritura(st, exc, poderes) ==
    IF \/ ~Truthy(st.ocr_results)
       \/ ~Truthy(st.versioning_results)
       \/ ~Truthy(DictGet(st.versioning_results, "escritura", <<>>))
    THEN NodeReturn(st, FALSE)
    ELSE IF exc THEN NodeReturn([st EXCEPT !.error = ErrPaso5], FALSE)
    ELSE NodeReturn([st EXCEPT !.legalization_results =
                        extract_from_documents(st.ocr_results,
                                               st.versioning_results, poderes)],
                    TRUE)

\* the early return hands back the state it was given
paso_5_legalizacion(st, exc, poderes) ==
    IF ~Truthy(st.ocr_results) \/ ~Truthy(st.versioning_results)
    THEN NodeReturn(st, FALSE)
    ELSE IF exc THEN NodeReturn([st EXCEPT !.error = ErrPaso5], FALSE)
    ELSE NodeReturn([st EXCEPT !.legalization_results =
                        extract_from_documents(st.ocr_results,
                                               st.versioning_results, poderes)],
                    TRUE)

\* ReportGeneratorAgent.generate_complete_report: the keys of the report
generate_complete_report ==
    [k \in {"informesociedad", "seccion_constitucion", "seccion_capital_social",
            "seccion_administracion", "legalizacion", "poderes_y_personerias",
            "restricciones"} |-> "seccion"]

\* variant: the report node without its check of versioning_results
paso_8_report_generation_unchecked(st, exc) ==
    IF exc THEN NodeReturn([st EXCEPT !.error = ErrPaso8], FALSE)
    ELSE NodeReturn([st EXCEPT !.report_results = generate_complete_report], TRUE)

paso_8_report_generation(st, exc) ==
    IF ~Truthy(st.versioning_results)
    THEN NodeReturn([st EXCEPT !.error = MsgPaso8], FALSE)
    ELSE IF exc THEN NodeReturn([st EXCEPT !.error = ErrPaso8], FALSE)
    ELSE NodeReturn([st EXCEPT !.report_results = generate_complete_report], TRUE)

\* build_processing_graph: entry point and edges
EntryPoint == "paso_1_ocr"
Edge ==
    [n \in {"paso_1_ocr", "paso_2_versioning", "paso_3_vectorization",
            "paso_4_escritura_comparison", "paso_5_legalizacion",
            "paso_8_report_generation"} |->
        CASE n = "paso_1_ocr" -> "paso_2_versioning"
          [] n = "paso_2_versioning" -> "paso_3_vectorization"
          [] n = "paso_3_vectorization" -> "paso_4_escritura_comparison"
          [] n = "paso_4_escritura_comparison" -> "paso_5_legalizacion"
          [] n = "paso_5_legalizacion" -> "paso_8_report_generation"
          [] n = "paso_8_report_generation" -> "END"]

(***************************************************************************)
(* One run of main.py                                                      *)
(***************************************************************************)
\* variant: a conditional edge that goes to END once a node has set error
RunNode_short_circuit(node, r) ==
    /\ pc = node
    /\ state' = r.state
    /\ entered' = Append(entered, node)
    /\ artifacts' = IF r.wrote THEN artifacts \cup {node} ELSE artifacts
    /\ first_error' = IF first_error = "" THEN r.state.error ELSE first_error
    /\ pc' = IF r.raised THEN "process_carpeta_except"
             ELSE IF r.state.error # "" THEN "END" ELSE Edge[node]
    /\ UNCHANGED <<argv, results, exit_code, critical>>
    /\ UNCHANGED nonPipeVars

\* a node is invoked on the current state and the graph follows its edge;
\* an exception that leaves the node ends graph.invoke
RunNode(node, r) ==
    /\ pc = node
    /\ state' = r.state
    /\ entered' = Append(entered, node)
    /\ artifacts' = IF r.wrote THEN artifacts \cup {node} ELSE artifacts
    /\ first_error' = IF first_error = "" THEN r.state.error ELSE first_error
    /\ pc' = IF r.raised THEN "process_carpeta_except" ELSE Edge[node]
    /\ UNCHANGED <<argv, results, exit_code, critical>>
    /\ UNCHANGED nonPipeVars

\* main, lines 12-21: the usage check and the folder check
MainStart ==
    /\ pc = "main"
    /\ IF argv = <<>> \/ argv[1] \notin DataFolders
       THEN pc' = "exit" /\ exit_code' = 1
       ELSE pc' = "DocumentOrchestrator" /\ exit_code' = exit_code
    /\ UNCHANGED <<write_failed, argv, state, entered, artifacts, first_error, results, critical>>
    /\ UNCHANGED nonPipeVars

\* main, lines 27-29 and 38-40: the import and the constructor, which builds
\* the graph; an exception here reaches main's except branch
OrchestratorInit ==
    /\ pc = "DocumentOrchestrator"
    /\ \E exc \in BOOLEAN :
          IF exc
          THEN pc' = "exit" /\ exit_code' = 1 /\ critical' = TRUE
          ELSE pc' = "process_carpeta" /\ UNCHANGED <<exit_code, critical>>
    /\ UNCHANGED <<write_failed, argv, state, entered, artifacts, first_error, results>>
    /\ UNCHANGED nonPipeVars

\* process_carpeta, lines 33-34: the initial state enters the graph
ProcessCarpetaInvoke ==
    /\ pc = "process_carpeta"
    /\ state' = create_initial_state
    /\ pc' = EntryPoint
    /\ UNCHANGED <<write_failed, argv, entered, artifacts, first_error, results, exit_code, critical>>
    /\ UNCHANGED nonPipeVars

\* where an exception of a node's try block comes from: none is raised, the
\* agent raises, or the write of the JSON artifact raises
ExcKinds == {"none", "agent", "write"}

\* the key of the state a node stores its result under
Campo ==
    [n \in DOMAIN Edge |->
        CASE n = "paso_1_ocr" -> "ocr_results"
          [] n = "paso_2_versioning" -> "versioning_results"
          [] n = "paso_3_vectorization" -> "vectorization_results"
          [] n = "paso_4_escritura_comparison" -> "comparison_results"
          [] n = "paso_5_legalizacion" -> "legalization_results"
          [] n = "paso_8_report_generation" -> "report_results"]

\* the write raises only in a call that gets as far as the write: ok is
\* what the node gives when nothing raises
WriteFailed(node, exc, ok) ==
    write_failed' =
        IF exc = "write" /\ ok.wrote THEN {node} ELSE {}

Step_paso_1_ocr ==
    \E exc \in ExcKinds, ocr \in OcrOutcomes(MaxFiles) :
        /\ RunNode("paso_1_ocr", paso_1_ocr(state, exc # "none", ocr))
        /\ WriteFailed("paso_1_ocr", exc, paso_1_ocr(state, FALSE, ocr))

Step_paso_2_versioning ==
    \E exc \in ExcKinds,
       llm \in [1..Len(state.ocr_results) -> LlmOutcomes(PipeLabels, PipeFechas)] :
        /\ RunNode("paso_2_versioning",
                   paso_2_versioning(state, exc # "none", llm))
        /\ WriteFailed("paso_2_versioning", exc,
                       paso_2_versioning(state, FALSE, llm))

Step_paso_3_vectorization ==
    \E exc \in ExcKinds \ {"agent"}, extract_from_ocr \in BOOLEAN :
        /\ RunNode("paso_3_vectorization",
                   paso_3_vectorization(state, exc # "none", extract_from_ocr))
        /\ WriteFailed("paso_3_vectorization", exc,
                       paso_3_vectorization(state, FALSE, extract_from_ocr))

Step_paso_4_escritura_comparison ==
    \E exc \in ExcKinds,
       diffs \in [1..(Len(DictGet(state.versioning_results, "escritura", <<>>)) - 1)
                    -> DiffOutcomes] :
        /\ RunNode("paso_4_escritura_comparison",
                   paso_4_escritura_comparison(state, exc # "none", diffs))
        /\ WriteFailed("paso_4_escritura_comparison", exc,
                       paso_4_escritura_comparison(state, FALSE, diffs))

Step_paso_5_legalizacion ==
    \E exc \in ExcKinds, poderes \in PoderesOutcomes :
        /\ RunNode("paso_5_legalizacion",
                   paso_5_legalizacion(state, exc # "none", poderes))
        /\ WriteFailed("paso_5_legalizacion", exc,
                       paso_5_legalizacion(state, FALSE, poderes))

Step_paso_8_report_generation ==
    \E exc \in ExcKinds :
        /\ RunNode("paso_8_report_generation",
                   paso_8_report_generation(state, exc # "none"))
        /\ WriteFailed("paso_8_report_generation", exc,
                       paso_8_report_generation(state, FALSE))

\* "success": not bool(final_state.get("error"))
ProcessCarpetaResults(final_state) ==
    [success |-> final_state.error = "", error |-> final_state.error]

\* process_carpeta, lines 36-44 and 72-74: the results of the final state
ProcessCarpetaReturn ==
    /\ pc = "END"
    /\ results' = ProcessCarpetaResults(state)
    /\ pc' = "results"
    /\ UNCHANGED <<write_failed, argv, state, entered, artifacts, first_error, exit_code, critical>>
    /\ UNCHANGED nonPipeVars

\* process_carpeta, lines 74-82: graph.invoke raised
ProcessCarpetaExcept ==
    /\ pc = "process_carpeta_except"
    /\ results' = [success |-> FALSE, error |-> ErrOrquestador]
    /\ pc' = "results"
    /\ UNCHANGED <<write_failed, argv, state, entered, artifacts, first_error, exit_code, critical>>
    /\ UNCHANGED nonPipeVars

\* variant: main without the sys.exit(1) of the failure branch
MainExitCode_no_exit(res) == 0

\* the exit code after "if results['success']"
MainExitCode(res) == IF res.success THEN 0 ELSE 1

\* main, lines 32-36
MainExit ==
    /\ pc = "results"
    /\ exit_code' = MainExitCode(results)
    /\ pc' = "exit"
    /\ UNCHANGED <<write_failed, argv, state, entered, artifacts, first_error, results, critical>>
    /\ UNCHANGED nonPipeVars

PipeInit ==
    /\ pc = "main"
    /\ argv \in {<<>>} \cup {<<c>> : c \in Carpetas}
    /\ state = create_initial_state
    /\ entered = <<>>
    /\ artifacts = {}
    /\ first_error = ""
    /\ results = None
    /\ exit_code = -1
    /\ critical = FALSE
    /\ write_failed = {}

Next ==
    \/ MainStart
    \/ OrchestratorInit
    \/ ProcessCarpetaInvoke
    \/ Step_paso_1_ocr
    \/ Step_paso_2_versioning
    \/ Step_paso_3_vectorization
    \/ Step_paso_4_escritura_comparison
    \/ Step_paso_5_legalizacion
    \/ Step_paso_8_report_generation
    \/ ProcessCarpetaReturn
    \/ ProcessCarpetaExcept
    \/ MainExit

(***************************************************************************)
(* Calls of the version assigner                                           *)
(***************************************************************************)
\* classification items: clasificacion may be missing, fecha may be ""
AVLabels == {"escritura", None}
AVItemFechas == {F_10_01_2020, FechaVacia}
\* fecha_mas_antigua of the date extractor; FechaVacia also stands for a
\* file without an entry in date_results
AVFechasAntiguas == {F_05_03_2019, F_5_3_2019, F_31_02_2020, FechaVacia}

ClassificationInputs ==
    UNION {{[i \in 1..Len(q) |->
                [filename |-> q[i], clasificacion |-> a[i][1], fecha |-> a[i][2]]] :
               a \in [1..Len(q) -> AVLabels \X AVItemFechas]} :
           q \in SeqsNoRep(Filenames, MaxDocs)}

DateInputs(classification) ==
    {[i \in 1..Len(classification) |->
         [filename |-> classification[i].filename, fecha_mas_antigua |-> f[i]]] :
        f \in [1..Len(classification) -> AVFechasAntiguas]}

VerLabels == {"escritura", " ESCRITURA", "contrato"}
VerFechas == {F_10_01_2020, F_5_3_2019, F_31_02_2020, NO_FECHA, FechaLibre}

OcrInputs ==
    {[i \in 1..Len(q) |-> [filename |-> q[i], text |-> "txt"]] :
        q \in SeqsNoRep(Filenames, MaxDocs)}

VerInit ==
    /\ versionado = None
    /\ \/ /\ vpc = "assign_versions"
          /\ in_classification \in ClassificationInputs
          /\ in_dates \in DateInputs(in_classification)
          /\ in_ocr = <<>>
          /\ in_llm = <<>>
       \/ /\ vpc = "assign_versions_from_ocr"
          /\ in_ocr \in OcrInputs
          /\ in_llm \in [1..Len(in_ocr) -> LlmOutcomes(VerLabels, VerFechas)]
          /\ in_classification = <<>>
          /\ in_dates = <<>>

Call_assign_versions ==
    /\ vpc = "assign_versions"
    /\ versionado' = assign_versions(in_classification, in_dates)
    /\ vpc' = "returned_assign_versions"
    /\ UNCHANGED <<in_classification, in_dates, in_ocr, in_llm>>
    /\ UNCHANGED nonVerVars

Call_assign_versions_from_ocr ==
    /\ vpc = "assign_versions_from_ocr"
    /\ versionado' = assign_versions_from_ocr(in_ocr, in_llm)
    /\ vpc' = "returned_assign_versions_from_ocr"
    /\ UNCHANGED <<in_classification, in_dates, in_ocr, in_llm>>
    /\ UNCHANGED nonVerVars

VerIdle ==
    /\ vpc = "idle"
    /\ in_classification = <<>>
    /\ in_dates = <<>>
    /\ in_ocr = <<>>
    /\ in_llm = <<>>
    /\ versionado = None

PipeIdle ==
    /\ pc = "idle"
    /\ argv = <<>>
    /\ state = create_initial_state
    /\ entered = <<>>
    /\ artifacts = {}
    /\ first_error = ""
    /\ results = None
    /\ exit_code = -1
    /\ critical = FALSE
    /\ write_failed = {}

(***************************************************************************)
(* ReportGeneratorAgent: the reconciler, _extract_section_with_date_priority*)
(* and _extract_encabezado_with_date_priority.  The encabezado variant     *)
(* works on result.get("informesociedad", {}) and wraps what it returns in *)
(* {"informesociedad": ...}; r_result is the inner dict.                   *)
(***************************************************************************)
\* largest number of escritura versions handed to the reconciler
MaxChain == 3

\* two of the fields the prompt asks for; the second is one the prompt
\* describes as a number
CampoTexto == "tipo_administracion"
CampoNumero == "administradores_titulares_num"
Fields == {CampoTexto, CampoNumero}
FieldOrder == <<CampoTexto, CampoNumero>>

\* the value of a key in the model's JSON: "" , a non-blank string, or a
\* non-zero number; src is the file whose text it was read from
Valor(kind, src) == [kind |-> kind, src |-> src]
Vacio == Valor("empty", "")
Texto(src) == Valor("str", src)
Numero(src) == Valor("num", src)

\* what self.llm.invoke answers for one text
Raise == [kind |-> "raise", data |-> EmptyDict]
NoJson == [kind |-> "nojson", data |-> EmptyDict]
Json(d) == [kind |-> "json", data |-> d]

\* _llm_json: the call of the model is made before the try block, so its
\* exception leaves the function; text that is not a JSON object gives {}
_llm_json(o) ==
    [raised |-> o.kind = "raise",
     data |-> IF o.kind = "json" THEN o.data ELSE EmptyDict]

\* _extract_section_from_text: _llm_json(...) or {}
_extract_section_from_text(o) == _llm_json(o)

\* the keys of a dict, in the order of the prompt
KeysOf(data) == SelectSeq(FieldOrder, LAMBDA f : f \in DOMAIN data)

\* not value or (isinstance(value, str) and not value.strip())
EsVacio(v) == v.kind = "empty"

\* variant: every key counts as empty
_get_empty_fields_all_keys(data) == KeysOf(data)

\* _get_empty_fields: only the keys the dict holds are looked at
_get_empty_fields(data) == SelectSeq(KeysOf(data), LAMBDA k : EsVacio(data[k]))

\* report_generator_agent._parse_fecha: datetime.min when it does not parse
_parse_fecha(f) == IF StrptimeOk(f) THEN <<f.y, f.m, f.d>> ELSE <<1, 1, 1>>

Reverse(s) == [i \in 1..Len(s) |-> s[Len(s) + 1 - i]]

\* variant: the loop over the older documents starts again at the newest
\* one ("for doc in escritura_docs_sorted" without the [1:])
escritura_docs_sorted_head_again(escritura_docs) ==
    LET rev == Reverse(escritura_docs)
        sorted == Reverse(SortBy(rev, [i \in 1..Len(rev) |->
                                          _parse_fecha(rev[i].fecha)]))
    IN  IF sorted = <<>> THEN <<>> ELSE <<sorted[1]>> \o sorted

\* sorted(escritura_docs, key=_parse_fecha(fecha), reverse=True): documents
\* of equal key keep their order
escritura_docs_sorted(escritura_docs) ==
    LET rev == Reverse(escritura_docs)
    IN  Reverse(SortBy(rev, [i \in 1..Len(rev) |-> _parse_fecha(rev[i].fecha)]))

\* {d.get("filename"): d.get("text") or ""}.get(filename, "")
_ocr_text_by_filename(ocr_results, filename) == OcrText(ocr_results, filename)

\* what the early returns hand back (as the inner dict)
RetornoVacio(kind) ==
    IF kind = "encabezado" THEN [f \in Fields |-> Vacio] ELSE EmptyDict

\* doc_result.get(field) and doc_result[field].strip()
Llena(doc_result, field) ==
    field \in DOMAIN doc_result /\ doc_result[field].kind = "str"

\* .strip() of a truthy value that is not a string raises AttributeError
StripRaises(doc_result, empty_fields) ==
    \E i \in 1..Len(empty_fields) :
        /\ empty_fields[i] \in DOMAIN doc_result
        /\ doc_result[empty_fields[i]].kind = "num"

\* variant: an older document overwrites every field it yields
Rellenar_overwrite(result, empty_fields, doc_result) ==
    [f \in DOMAIN result |->
        IF Llena(doc_result, f) THEN doc_result[f] ELSE result[f]]

\* the loop "for field in empty_fields[:]" for one older document
Rellenar(result, empty_fields, doc_result) ==
    [f \in DOMAIN result |->
        IF (\E i \in 1..Len(empty_fields) : empty_fields[i] = f)
              /\ Llena(doc_result, f)
        THEN doc_result[f] ELSE result[f]]

Restantes(empty_fields, doc_result) ==
    SelectSeq(empty_fields, LAMBDA f : ~Llena(doc_result, f))

\* file names of the chain, in version order
ChainNames == <<"A", "B", "C", "D", "E">>

\* the dates of a chain as assign_versions_from_ocr leaves them: dated
\* documents in ascending order, then the NO_FECHA ones
ChainFechas == <<F_05_03_2019, F_10_01_2020, NO_FECHA>>

Chains(n) ==
    {[k \in 1..n |->
         [filename |-> ChainNames[k], fecha |-> ChainFechas[r[k]], version |-> k]] :
        r \in {q \in [1..n -> 1..Len(ChainFechas)] :
                  \A i, j \in 1..n : i < j => q[i] <= q[j]}}

\* the JSON objects the model can answer for the text of file fn
JsonDicts(fn) ==
    UNION {{[f \in {CampoTexto} |-> v1],
            [f \in Fields |-> IF f = CampoTexto THEN v1 ELSE Vacio],
            [f \in Fields |-> IF f = CampoTexto THEN v1 ELSE Texto(fn)],
            [f \in Fields |-> IF f = CampoTexto THEN v1 ELSE Numero(fn)]} :
           v1 \in {Vacio, Texto(fn)}}

LlmAnswers(fn) == {Raise, NoJson} \cup {Json(d) : d \in JsonDicts(fn)}

\* what becomes of one document of the chain: OCR has no text for it, or
\* the model answers one of LlmAnswers for its text
NoText == [kind |-> "notext", data |-> EmptyDict]
Fates == {NoText} \cup LlmAnswers("")

\* the values of an answer, marked with the file they were read from
Tag(o, fn) ==
    [o EXCEPT !.data = [f \in DOMAIN o.data |->
                           IF o.data[f].kind = "empty" THEN Vacio
                           ELSE Valor(o.data[f].kind, fn)]]

RecInit ==
    /\ rpc = "call"
    /\ r_kind \in {"seccion", "encabezado"}
    /\ \E n \in 0..MaxChain : r_docs \in Chains(n)
    /\ \E fate \in [1..Len(r_docs) -> Fates] :
          /\ r_ocr = [k \in 1..Len(r_docs) |->
                         [filename |-> r_docs[k].filename,
                          text |-> IF fate[k] = NoText THEN "" ELSE "txt"]]
          \* the text of a file that has none is never sent to the model
          /\ r_llm = [k \in 1..Len(r_docs) |->
                         IF fate[k] = NoText THEN NoJson
                         ELSE Tag(fate[k], r_docs[k].filename)]
    /\ r_sorted = <<>>
    /\ r_i = 0
    /\ r_result = EmptyDict
    /\ r_empty = <<>>
    /\ r_calls = <<>>

\* the answer of the model for the text of the document of version v
AnswerFor(doc) == r_llm[doc.version]

\* lines 386-418: up to the first extraction, from the newest document
RecStart ==
    /\ rpc = "call"
    /\ LET sorted == escritura_docs_sorted(r_docs)
           latest_doc == sorted[1]
           ext == _extract_section_from_text(AnswerFor(latest_doc))
       IN  IF ~Truthy(r_docs)
           THEN /\ rpc' = "returned"
                /\ r_result' = RetornoVacio(r_kind)
                /\ UNCHANGED <<r_sorted, r_i, r_empty, r_calls>>
           ELSE IF _ocr_text_by_filename(r_ocr, latest_doc.filename) = ""
           THEN /\ rpc' = "returned"
                /\ r_result' = RetornoVacio(r_kind)
                /\ r_sorted' = sorted
                /\ UNCHANGED <<r_i, r_empty, r_calls>>
           ELSE /\ r_sorted' = sorted
                /\ r_calls' = <<latest_doc.filename>>
                /\ IF ext.raised
                   THEN rpc' = "raised" /\ UNCHANGED <<r_result, r_empty, r_i>>
                   ELSE /\ r_result' = ext.data
                        /\ r_empty' = _get_empty_fields(ext.data)
                        /\ r_i' = 2
                        /\ rpc' = IF _get_empty_fields(ext.data) # <<>>
                                  THEN "loop" ELSE "returned"
    /\ UNCHANGED <<r_kind, r_docs, r_ocr, r_llm>>
    /\ UNCHANGED nonRecVars

\* lines 421-441: one turn of the loop over the older documents
RecOlder ==
    /\ rpc = "loop"
    /\ IF r_i > Len(r_sorted) \/ r_empty = <<>>
       THEN rpc' = "returned" /\ UNCHANGED <<r_i, r_result, r_empty, r_calls>>
       ELSE LET doc == r_sorted[r_i]
                ext == _extract_section_from_text(AnswerFor(doc))
            IN  IF _ocr_text_by_filename(r_ocr, doc.filename) = ""
                THEN /\ r_i' = r_i + 1
                     /\ UNCHANGED <<rpc, r_result, r_empty, r_calls>>
                ELSE /\ r_calls' = Append(r_calls, doc.filename)
                     /\ IF ext.raised \/ StripRaises(ext.data, r_empty)
                        THEN rpc' = "raised" /\ UNCHANGED <<r_i, r_result, r_empty>>
                        ELSE /\ r_result' = Rellenar(r_result, r_empty, ext.data)
                             /\ r_empty' = Restantes(r_empty, ext.data)
                             /\ r_i' = r_i + 1
                             /\ rpc' = IF Restantes(r_empty, ext.data) = <<>>
                                       THEN "returned" ELSE "loop"
    /\ UNCHANGED <<r_kind, r_docs, r_ocr, r_llm, r_sorted>>
    /\ UNCHANGED nonRecVars

RecIdle ==
    /\ rpc = "idle"
    /\ r_kind = "seccion"
    /\ r_docs = <<>>
    /\ r_ocr = <<>>
    /\ r_llm = <<>>
    /\ r_sorted = <<>>
    /\ r_i = 0
    /\ r_result = EmptyDict
    /\ r_empty = <<>>
    /\ r_calls = <<>>

(***************************************************************************)
(* VersionComparerAgent                                                    *)
(***************************************************************************)
\* _find_text: (ocr_index.get(filename) or "")
_find_text(ocr_results, filename) == OcrText(ocr_results, filename)

\* _compare_texts: the fallback when a text is missing or the model's
\* answer is no JSON object with "cambios"; o is what the model gives
_compare_texts(texto_anterior, texto_nueva, o) ==
    IF texto_anterior = "" \/ texto_nueva = "" THEN "fallback" ELSE o

\* {"filename", "fecha", "version"} of a version
Extremo(d) == [filename |-> d.filename, fecha |-> d.fecha, version |-> d.version]

\* variant: every later version is compared against the first
comps_against_first(docs_ordenados, ocr_results, diffs) ==
    [i \in 1..(Len(docs_ordenados) - 1) |->
        [de |-> Extremo(docs_ordenados[1]),
         a |-> Extremo(docs_ordenados[i + 1]),
         diferencias |->
            _compare_texts(_find_text(ocr_results, docs_ordenados[1].filename),
                           _find_text(ocr_results, docs_ordenados[i + 1].filename),
                           diffs[i])]]

\* the loop "for i in range(len(docs_ordenados) - 1)": one entry per pair
comps(docs_ordenados, ocr_results, diffs) ==
    [i \in 1..(Len(docs_ordenados) - 1) |->
        [de |-> Extremo(docs_ordenados[i]),
         a |-> Extremo(docs_ordenados[i + 1]),
         diferencias |->
            _compare_texts(_find_text(ocr_results, docs_ordenados[i].filename),
                           _find_text(ocr_results, docs_ordenados[i + 1].filename),
                           diffs[i])]]

\* diffs[categoria][i] is the model's answer for pair i of the category
comparar_versiones(versioning_results, ocr_results, diffs) ==
    [categoria \in DOMAIN versioning_results |->
        LET docs == versioning_results[categoria]
        IN  IF Len(docs) < 2 THEN <<>>
            ELSE comps(SortBy(docs, [i \in 1..Len(docs) |-> KeyVersion(docs[i])]),
                       ocr_results, diffs[categoria])]

\* the chains handed to the comparer: an escritura chain and at most two
\* publicaciones, numbered as the version assigner numbers them
Cadena(names, n) ==
    [k \in 1..n |-> [filename |-> names[k], fecha |-> F_10_01_2020, version |-> k]]

DifVersionings ==
    UNION {{[c \in {"escritura"} |-> Cadena(ChainNames, n)]} \cup
           {[c \in {"escritura", "publicacion"} |->
                IF c = "escritura" THEN Cadena(ChainNames, n)
                ELSE Cadena(<<"P", "Q">>, m)] : m \in 1..2} :
           n \in 1..MaxChain}

\* ocr_results: one record per file of the versioning, with or without text
RecordsOf(versioning) ==
    LET cats == <<"escritura", "publicacion">>
        has == SelectSeq(cats, LAMBDA c : c \in DOMAIN versioning)
    IN  IF Len(has) = 1 THEN versioning[has[1]]
        ELSE versioning[has[1]] \o versioning[has[2]]

DifOcrInputs(versioning) ==
    LET docs == RecordsOf(versioning)
    IN  {[k \in 1..Len(docs) |-> [filename |-> docs[k].filename, text |-> t[k]]] :
            t \in [1..Len(docs) -> Texts]}

DifDiffs(versioning) ==
    {d \in [DOMAIN versioning -> UNION {[1..j -> DiffOutcomes] : j \in 0..MaxChain}] :
        \A c \in DOMAIN versioning :
            Len(d[c]) = IF Len(versioning[c]) = 0 THEN 0 ELSE Len(versioning[c]) - 1}

DifInit ==
    /\ dpc \in {"comparar_versiones", "paso_4_escritura_comparison"}
    /\ d_versioning \in DifVersionings
    /\ d_ocr \in DifOcrInputs(d_versioning)
    /\ d_diffs \in DifDiffs(d_versioning)
    /\ d_out = EmptyDict

Call_comparar_versiones ==
    /\ dpc = "comparar_versiones"
    /\ d_out' = comparar_versiones(d_versioning, d_ocr, d_diffs)
    /\ dpc' = "returned_comparar_versiones"
    /\ UNCHANGED <<d_versioning, d_ocr, d_diffs>>
    /\ UNCHANGED nonDifVars

\* the comparison node on a state that holds the same inputs
Call_paso_4_escritura_comparison ==
    /\ dpc = "paso_4_escritura_comparison"
    /\ d_out' = paso_4_escritura_comparison(
                    [create_initial_state EXCEPT
                        !.ocr_results = d_ocr,
                        !.versioning_results = d_versioning],
                    FALSE, d_diffs["escritura"]).state.comparison_results
    /\ dpc' = "returned_paso_4_escritura_comparison"
    /\ UNCHANGED <<d_versioning, d_ocr, d_diffs>>
    /\ UNCHANGED nonDifVars

DifIdle ==
    /\ dpc = "idle"
    /\ d_versioning = EmptyDict
    /\ d_ocr = <<>>
    /\ d_diffs = EmptyDict
    /\ d_out = EmptyDict

(***************************************************************************)
(* OCRAgent: analyze_folder and _analyze_file                              *)
(***************************************************************************)
\* largest number of files os.walk finds under the folder
MaxFolder == 2

\* OCRAgent.__init__: max_retries
max_retries == 4

\* paths below the folder; os.path.basename gives the record's filename
Paths == {"A", "B", "sub/A"}
Basename(path) == IF path = "sub/A" THEN "A" ELSE path

\* sha1 of a file's bytes
Shas == {"h1", "h2"}

\* a file of the folder: whether open/read works and whether its extension
\* is in ALLOWED_EXT
FileKinds == {"ok", "unreadable", "bad_ext"}

FolderInputs ==
    UNION {{[i \in 1..Len(q) |->
                [path |-> q[i], sha1 |-> a[i][1], kind |-> a[i][2]]] :
               a \in [1..Len(q) -> Shas \X FileKinds]} :
           q \in SeqsNoRep(Paths, MaxFolder)}

\* result_dict, lines 163-174: the keys the pipeline reads
ResultDict(filename, path, sha1, text) ==
    [filename |-> filename, path |-> path, sha1 |-> sha1, text |-> text]

\* ocr_cache/<sha1>.pkl as earlier runs left it: empty, the record of a
\* file of this folder, or the record of a file that had another name
CacheInputs ==
    {EmptyDict,
     [h \in {"h1"} |-> ResultDict("A", "A", "h1", "txt")],
     [h \in {"h1"} |-> ResultDict("Z", "Z", "h1", "txt")]}

\* _save_to_cache: pickle.dump of the record under its sha1
CacheWith(cache, sha1, result) ==
    [h \in DOMAIN cache \cup {sha1} |-> IF h = sha1 THEN result ELSE cache[h]]

\* variant: the delay is not doubled
NextDelay_no_doubling(delay) == delay

\* delay = min(delay * 2, 10.0)
NextDelay(delay) == IF delay * 2 < 10 THEN delay * 2 ELSE 10

\* what one call of the analysis service ends with: a result with or
\* without text, a transient error (429, 503, ...), any other error
ServiceOutcomes == {"text", "no_text", "transient", "error"}

OcrInit ==
    /\ opc = "analyze_folder"
    /\ o_isdir \in BOOLEAN
    /\ IF o_isdir
       THEN o_files \in FolderInputs /\ o_cache \in CacheInputs
       ELSE o_files = <<>> /\ o_cache = EmptyDict
    /\ o_idx = 0
    /\ o_attempt = 0
    /\ o_delay = 0
    /\ o_sleeps = <<>>
    /\ o_fates = <<>>
    /\ o_results = <<>>
    /\ o_events = <<>>
    /\ o_state = create_initial_state

\* analyze_folder, lines 192-199
OcrAnalyzeFolder ==
    /\ opc = "analyze_folder"
    /\ IF o_isdir THEN opc' = "file" /\ o_idx' = 1
       ELSE opc' = "raised" /\ o_idx' = o_idx
    /\ UNCHANGED <<o_isdir, o_files, o_cache, o_attempt, o_delay, o_sleeps,
                   o_fates, o_results, o_events, o_state>>
    /\ UNCHANGED nonOcrVars

\* _analyze_file returned None for the current file
FileSkipped(fate) ==
    /\ o_fates' = Append(o_fates, fate)
    /\ o_idx' = o_idx + 1
    /\ opc' = "file"
    /\ UNCHANGED o_results

\* variant: the error of one file leaves _analyze_file and analyze_folder
FileFailed_aborts(fate) ==
    /\ o_fates' = Append(o_fates, fate)
    /\ opc' = "raised"
    /\ UNCHANGED <<o_idx, o_results>>

\* lines 181-189: the except branch returns None, and so does the end of
\* the retry loop; analyze_folder goes on with the next file
FileFailed(fate) == FileSkipped(fate)

\* _analyze_file returned a record, which analyze_folder appends
FileDone(fate, item) ==
    /\ o_fates' = Append(o_fates, fate)
    /\ o_results' = Append(o_results, item)
    /\ o_idx' = o_idx + 1
    /\ opc' = "file"

\* variant: _load_from_cache without its try block
_load_from_cache_no_try(cache, sha1, load_ok) ==
    IF sha1 \notin DOMAIN cache
    THEN [raised |-> FALSE, value |-> None, ev |-> "miss"]
    ELSE IF ~load_ok
    THEN [raised |-> TRUE, value |-> None, ev |-> "load_failed"]
    ELSE [raised |-> FALSE, value |-> cache[sha1], ev |-> "hit"]

\* _load_from_cache, lines 56-66: None when the file <sha1>.pkl does not
\* exist and when open or pickle.load raises (load_ok is FALSE), else the
\* unpickled record
_load_from_cache(cache, sha1, load_ok) ==
    IF sha1 \notin DOMAIN cache
    THEN [raised |-> FALSE, value |-> None, ev |-> "miss"]
    ELSE IF ~load_ok
    THEN [raised |-> FALSE, value |-> None, ev |-> "load_failed"]
    ELSE [raised |-> FALSE, value |-> cache[sha1], ev |-> "hit"]

\* _save_to_cache, lines 68-75: the cache after the call; when open or
\* pickle.dump raises (saved is FALSE) the exception is printed
_save_to_cache(cache, sha1, result, saved) ==
    IF saved THEN CacheWith(cache, sha1, result) ELSE cache

Evento(idx, ev) == [idx |-> idx, ev |-> ev]

\* the next file of the walk, _analyze_file lines 78-103; after the last
\* file analyze_folder returns results
OcrAnalyzeFile ==
    /\ opc = "file"
    /\ IF o_idx > Len(o_files)
       THEN /\ opc' = "returned"
            /\ UNCHANGED <<o_idx, o_fates, o_results, o_attempt, o_delay,
                           o_sleeps, o_events>>
       ELSE LET f == o_files[o_idx]
            IN  \E load_ok \in BOOLEAN :
                  LET cached_result == _load_from_cache(o_cache, f.sha1, load_ok)
                  IN  IF f.kind = "unreadable"
                      THEN FileSkipped("unreadable")
                           /\ UNCHANGED <<o_attempt, o_delay, o_sleeps, o_events>>
                      ELSE /\ o_events' = Append(o_events,
                                                 Evento(o_idx, cached_result.ev))
                           /\ IF cached_result.raised
                              THEN /\ opc' = "raised"
                                   /\ UNCHANGED <<o_idx, o_fates, o_results,
                                                  o_attempt, o_delay, o_sleeps>>
                              ELSE IF cached_result.ev = "hit"
                              THEN FileDone("cache", cached_result.value)
                                   /\ UNCHANGED <<o_attempt, o_delay, o_sleeps>>
                              ELSE IF f.kind = "bad_ext"
                              THEN FileSkipped("bad_ext")
                                   /\ UNCHANGED <<o_attempt, o_delay, o_sleeps>>
                              ELSE /\ opc' = "attempt"
                                   /\ o_attempt' = 0
                                   /\ o_delay' = 1
                                   /\ o_sleeps' = <<>>
                                   /\ UNCHANGED <<o_idx, o_fates, o_results>>
    /\ UNCHANGED <<o_isdir, o_files, o_cache, o_state>>
    /\ UNCHANGED nonOcrVars

\* one turn of "for attempt in range(self.max_retries)", lines 104-189
OcrAttempt ==
    /\ opc = "attempt"
    /\ LET f == o_files[o_idx]
       IN  \E out \in ServiceOutcomes, saved \in BOOLEAN :
             CASE out \in {"text", "no_text"} ->
                    LET result_dict ==
                            ResultDict(Basename(f.path), f.path, f.sha1,
                                       IF out = "text" THEN "txt" ELSE "")
                    IN  /\ FileDone("ocr", result_dict)
                        /\ o_cache' = _save_to_cache(o_cache, f.sha1,
                                                     result_dict, saved)
                        /\ o_events' =
                              Append(o_events,
                                     Evento(o_idx, IF saved THEN "saved"
                                                   ELSE "save_failed"))
                        /\ UNCHANGED <<o_attempt, o_delay, o_sleeps>>
               [] out = "transient" ->
                    /\ o_sleeps' = Append(o_sleeps, o_delay)
                    /\ o_delay' = NextDelay(o_delay)
                    /\ o_attempt' = o_attempt + 1
                    /\ IF o_attempt + 1 < max_retries
                       THEN UNCHANGED <<opc, o_idx, o_fates, o_results>>
                       ELSE FileFailed("exhausted")
                    /\ UNCHANGED <<o_cache, o_events>>
               [] out = "error" ->
                    /\ FileFailed("error")
                    /\ UNCHANGED <<o_cache, o_attempt, o_delay, o_sleeps,
                                   o_events>>
    /\ UNCHANGED <<o_isdir, o_files, o_state>>
    /\ UNCHANGED nonOcrVars

\* paso_1_ocr around analyze_folder: exc is an exception of the node's own
\* (the constructor of OCRAgent, the write of the results file)
OcrNodeReturn ==
    /\ opc \in {"returned", "raised"}
    /\ \E exc \in BOOLEAN :
          LET r == paso_1_ocr(create_initial_state, exc \/ opc = "raised", o_results)
          IN  /\ o_state' = r.state
              /\ opc' = IF opc = "raised" THEN "paso_1_except_analyze_folder"
                        ELSE IF exc THEN "paso_1_except" ELSE "paso_1_returned"
    /\ UNCHANGED <<o_isdir, o_files, o_cache, o_idx, o_attempt, o_delay,
                   o_sleeps, o_fates, o_results, o_events>>
    /\ UNCHANGED nonOcrVars

OcrIdle ==
    /\ opc = "idle"
    /\ o_isdir = TRUE
    /\ o_files = <<>>
    /\ o_cache = EmptyDict
    /\ o_idx = 0
    /\ o_attempt = 0
    /\ o_delay = 0
    /\ o_sleeps = <<>>
    /\ o_fates = <<>>
    /\ o_results = <<>>
    /\ o_events = <<>>
    /\ o_state = create_initial_state

(***************************************************************************)
(* LegalizationAgent.extract_from_documents, code by code and candidate by *)
(* candidate                                                               *)
(***************************************************************************)
\* largest number of rows of the catalogue
MaxCodes == 2
\* largest number of candidate chunks of one code
MaxCands == 2

\* rows of langchain_pg_facultades in the order of the query; anclas tells
\* whether the row has anclas_obligatorias
CodeIds == <<"01", "02", "03">>
Catalogs(n) ==
    UNION {{[i \in 1..k |-> [id |-> CodeIds[i], anclas |-> a[i]]] :
               a \in [1..k -> BOOLEAN]} : k \in 0..n}

\* versioning_results["escritura"] as a list in any order
LegEscrituras ==
    LET v1 == [filename |-> "A", fecha |-> F_05_03_2019, version |-> 1]
        v2 == [filename |-> "B", fecha |-> F_10_01_2020, version |-> 2]
    IN  {<<>>, <<v1>>, <<v1, v2>>, <<v2, v1>>}

LegOcrInputs ==
    {<<[filename |-> "A", text |-> ta], [filename |-> "B", text |-> tb]>> :
        ta \in Texts, tb \in Texts}

\* variant: only_latest_escritura = False
base_doc_oldest(escrituras) ==
    SortBy(escrituras, [i \in 1..Len(escrituras) |-> KeyVersion(escrituras[i])])[1]

\* lines 339-340: escrituras_ordenadas[-1]
base_doc(escrituras) ==
    LET escrituras_ordenadas ==
            SortBy(escrituras,
                   [i \in 1..Len(escrituras) |-> KeyVersion(escrituras[i])])
    IN  escrituras_ordenadas[Len(escrituras_ordenadas)]

\* what self.retriever(query, 6) gives: it raises, or hits of which some
\* have score >= min_similarity (TRUE)
HitsOutcomes(n) ==
    {[raised |-> TRUE, hits |-> <<>>]} \cup
    {[raised |-> FALSE, hits |-> h] :
        h \in UNION {[1..k -> BOOLEAN] : k \in 0..n}}

\* _candidate_chunks_for_code: the hits with a sufficient score; when there
\* is none, the nchunks chunks of the base text
_candidate_chunks_for_code(r, nchunks) ==
    LET hits == IF r.raised THEN <<>> ELSE r.hits
        out == SelectSeq([i \in 1..Len(hits) |->
                             [src |-> "hit", n |-> i, ok |-> hits[i]]],
                         LAMBDA h : h.ok)
    IN  IF out # <<>>
        THEN [i \in 1..Len(out) |-> [src |-> "hit", n |-> i]]
        ELSE [i \in 1..nchunks |-> [src |-> "chunk", n |-> i]]

\* _rule_filter: contains_all_anchors for a code that has anchors
_rule_filter(code, anchors_ok) == IF code.anclas THEN anchors_ok ELSE TRUE

\* what the model answers to the verification prompt: JSON that grants with
\* confianza alta or media, JSON that does not grant, text that is not the
\* expected JSON; or the call raises
VerifyAnswers == {"alta", "media", "denied", "nojson", "raise"}

\* _verify_with_llm: the call is outside the try block; text that cannot
\* be read gives the fallback dict
_verify_with_llm(ans) ==
    [raised |-> ans = "raise",
     data |-> IF ans \in {"alta", "media"}
              THEN [otorgado |-> TRUE, confianza |-> ans]
              ELSE [otorgado |-> FALSE, confianza |-> "baja"]]

\* lines 375-388: cand; evidencia is the place of the chunk among the
\* candidates of the code
Cand(code, ver, base, cand_chunk) ==
    [id |-> code.id, otorgado |-> TRUE, confianza |-> ver.confianza,
     evidencia |-> cand_chunk, archivo |-> base.filename,
     fecha |-> base.fecha, version |-> base.version]

\* variant: the first granted candidate is kept whatever its confianza
Mejor_first_granted(best, cand) == IF best = <<>> THEN <<cand>> ELSE best

\* lines 389-390; best is <<>> for None
Mejor(best, cand) ==
    IF best = <<>> \/ (best[1].confianza # "alta" /\ cand.confianza = "alta")
    THEN <<cand>> ELSE best

LegInit ==
    /\ lpc = "call"
    /\ l_escrituras \in LegEscrituras
    /\ l_ocr \in LegOcrInputs
    /\ l_catalog \in Catalogs(MaxCodes)
    /\ l_ci = 0
    /\ l_cands = <<>>
    /\ l_ki = 0
    /\ l_best = <<>>
    /\ l_sent = <<>>
    /\ l_poderes = <<>>
    /\ l_out = None

\* lines 331-361: up to the loop over the codes
LegStart ==
    /\ lpc = "call"
    /\ IF ~Truthy(l_escrituras)
       THEN /\ l_out' = [documento_base |-> None, poderes |-> <<>>]
            /\ lpc' = "returned"
            /\ UNCHANGED l_ci
       ELSE IF OcrText(l_ocr, base_doc(l_escrituras).filename) = ""
       THEN /\ l_out' = [documento_base |-> base_doc(l_escrituras),
                         poderes |-> <<>>]
            /\ lpc' = "returned"
            /\ UNCHANGED l_ci
       ELSE /\ lpc' = "code"
            /\ l_ci' = 1
            /\ UNCHANGED l_out
    /\ UNCHANGED <<l_escrituras, l_ocr, l_catalog, l_cands, l_ki, l_best,
                   l_sent, l_poderes>>
    /\ UNCHANGED nonLegVars

\* lines 364-367: the next code and its candidates; lines 398-405 after
\* the last code
LegCode ==
    /\ lpc = "code"
    /\ IF l_ci > Len(l_catalog)
       THEN /\ l_out' = [documento_base |->
                            [filename |-> base_doc(l_escrituras).filename,
                             fecha |-> base_doc(l_escrituras).fecha,
                             version |-> base_doc(l_escrituras).version],
                         poderes |-> l_poderes]
            /\ lpc' = "returned"
            /\ UNCHANGED <<l_cands, l_ki, l_best, l_sent>>
       ELSE /\ \E r \in HitsOutcomes(MaxCands), nchunks \in 1..MaxCands :
                  l_cands' = _candidate_chunks_for_code(r, nchunks)
            /\ l_ki' = 1
            /\ l_best' = <<>>
            /\ l_sent' = <<>>
            /\ lpc' = "chunk"
            /\ UNCHANGED l_out
    /\ UNCHANGED <<l_escrituras, l_ocr, l_catalog, l_ci, l_poderes>>
    /\ UNCHANGED nonLegVars

\* lines 368-392: one turn of the loop over the candidates
LegChunk ==
    /\ lpc = "chunk"
    /\ IF l_ki > Len(l_cands)
       THEN lpc' = "code_done" /\ UNCHANGED <<l_ki, l_best, l_sent>>
       ELSE \E anchors_ok \in BOOLEAN, ans \in VerifyAnswers :
              LET code == l_catalog[l_ci]
                  v == _verify_with_llm(ans)
                  cand == Cand(code, v.data, base_doc(l_escrituras), l_ki)
                  best == Mejor(l_best, cand)
              IN  IF ~_rule_filter(code, anchors_ok)
                  THEN /\ l_ki' = l_ki + 1
                       /\ UNCHANGED <<lpc, l_best, l_sent>>
                  ELSE IF v.raised
                  THEN /\ lpc' = "raised"
                       /\ UNCHANGED <<l_ki, l_best, l_sent>>
                  ELSE /\ l_sent' = Append(l_sent,
                                           [chunk |-> l_ki, ver |-> v.data])
                       /\ IF v.data.otorgado
                          THEN /\ l_best' = best
                               /\ IF best[1].confianza = "alta"
                                  THEN lpc' = "code_done" /\ UNCHANGED l_ki
                                  ELSE l_ki' = l_ki + 1 /\ UNCHANGED lpc
                          ELSE /\ l_ki' = l_ki + 1
                               /\ UNCHANGED <<lpc, l_best>>
    /\ UNCHANGED <<l_escrituras, l_ocr, l_catalog, l_ci, l_cands, l_poderes,
                   l_out>>
    /\ UNCHANGED nonLegVars

\* lines 394-396: the code's best candidate, if any, goes to poderes
LegCodeDone ==
    /\ lpc = "code_done"
    /\ l_poderes' = l_poderes \o l_best
    /\ l_ci' = l_ci + 1
    /\ lpc' = "code"
    /\ UNCHANGED <<l_escrituras, l_ocr, l_catalog, l_cands, l_ki, l_best,
                   l_sent, l_out>>
    /\ UNCHANGED nonLegVars

LegIdle ==
    /\ lpc = "idle"
    /\ l_escrituras = <<>>
    /\ l_ocr = <<>>
    /\ l_catalog = <<>>
    /\ l_ci = 0
    /\ l_cands = <<>>
    /\ l_ki = 0
    /\ l_best = <<>>
    /\ l_sent = <<>>
    /\ l_poderes = <<>>
    /\ l_out = None

(***************************************************************************)
(* Specifications                                                          *)
(***************************************************************************)
Init == PipeInit /\ VerIdle /\ RecIdle /\ DifIdle /\ OcrIdle /\ LegIdle

Spec == Init /\ [][Next]_vars

InitVersioning ==
    VerInit /\ PipeIdle /\ RecIdle /\ DifIdle /\ OcrIdle /\ LegIdle

NextVersioning ==
    \/ Call_assign_versions
    \/ Call_assign_versions_from_ocr

SpecVersioning == InitVersioning /\ [][NextVersioning]_vars

InitReconciler ==
    RecInit /\ PipeIdle /\ VerIdle /\ DifIdle /\ OcrIdle /\ LegIdle

NextReconciler ==
    \/ RecStart
    \/ RecOlder

SpecReconciler == InitReconciler /\ [][NextReconciler]_vars

InitDiffer ==
    DifInit /\ PipeIdle /\ VerIdle /\ RecIdle /\ OcrIdle /\ LegIdle

NextDiffer ==
    \/ Call_comparar_versiones
    \/ Call_paso_4_escritura_comparison

SpecDiffer == InitDiffer /\ [][NextDiffer]_vars

InitOcr ==
    OcrInit /\ PipeIdle /\ VerIdle /\ RecIdle /\ DifIdle /\ LegIdle

NextOcr ==
    \/ OcrAnalyzeFolder
    \/ OcrAnalyzeFile
    \/ OcrAttempt
    \/ OcrNodeReturn

SpecOcr == InitOcr /\ [][NextOcr]_vars

InitLegalization ==
    LegInit /\ PipeIdle /\ VerIdle /\ RecIdle /\ DifIdle /\ OcrIdle

NextLegalization ==
    \/ LegStart
    \/ LegCode
    \/ LegChunk
    \/ LegCodeDone

SpecLegalization == InitLegalization /\ [][NextLegalization]_vars

(***************************************************************************)
(* Properties of the pipeline (specification Spec)                         *)
(***************************************************************************)
ResultFields(st) ==
    <<st.vectorization_results, st.comparison_results,
      st.legalization_results, st.report_results>>

\* the messages of the nodes' precondition checks
PreconditionMessages == {MsgPaso2, MsgPaso3, MsgPaso4, MsgPaso8}

\* graph.invoke has been called and did not reach END
GraphRaised ==
    /\ pc \in {"process_carpeta_except", "results", "exit"}
    /\ entered # <<>>
    /\ entered[Len(entered)] # "paso_8_report_generation"

\* process_carpeta has returned its results to main
Returned == pc \in {"results", "exit"} /\ entered # <<>>

\* the folder named on the command line does not exist
FolderMissing == argv # <<>> /\ argv[1] \notin DataFolders

\* C1: fail-fast. Once a node has set a non-empty error, no later node adds
\* or changes vectorization_results, comparison_results,
\* legalization_results or report_results, and none writes an artifact.
C1_FailFast ==
    [][state.error # "" =>
          /\ ResultFields(state') = ResultFields(state)
          /\ artifacts' = artifacts]_vars

\* C2: the first fatal error wins. The error process_carpeta returns is the
\* first one a node recorded.
C2_FirstErrorWins ==
    (pc = "results" /\ first_error # "") => results.error = first_error

\* C3: Failed is absorbing. A non-empty error is never reset to empty by a
\* later node, and process_carpeta then reports success = false.
C3_FailedAbsorbing ==
    /\ [][state.error # "" => state'.error # ""]_vars
    /\ []((Returned /\ first_error # "") => ~results.success)

C3_Witness ==
    /\ pc = "results"
    /\ Len(entered) = 6
    /\ first_error = ErrPaso4
    /\ state.error # ""
    /\ ~results.success

\* C4: if OCR yields an empty list, every later result stays empty, the
\* final error is one of the precondition messages, process_carpeta returns
\* success = false and main exits with code 1.
C4_EmptyOcrFailsFast ==
    (entered # <<>> /\ state.ocr_results = <<>>) =>
        /\ state.versioning_results = EmptyDict
        /\ ResultFields(state) = <<EmptyDict, EmptyDict, EmptyDict, EmptyDict>>
        /\ pc = "END" => state.error \in PreconditionMessages
        /\ pc = "results" =>
              results.error \in PreconditionMessages /\ ~results.success
        /\ pc = "exit" => ~results.success /\ exit_code = 1

C4_Witness ==
    /\ pc = "exit"
    /\ Len(entered) = 6
    /\ state.ocr_results = <<>>
    /\ first_error = MsgPaso2
    /\ results.error = MsgPaso8
    /\ exit_code = 1

\* C5 as stated: main exits with 1 exactly when the folder is missing, the
\* orchestrator returns success = false or an exception escapes it, else 0;
\* success = false iff the final error is non-empty or the graph raised.
C5_ExitCode ==
    /\ pc = "exit" =>
          /\ exit_code \in {0, 1}
          /\ exit_code = 1 <=>
                \/ FolderMissing
                \/ critical
                \/ (Returned /\ ~results.success)
    /\ pc = "results" => (~results.success <=> (state.error # "" \/ GraphRaised))

\* C5 amended: main also exits with 1 when no folder argument is given.
C5_ExitCodeAmended ==
    /\ pc = "exit" =>
          /\ exit_code \in {0, 1}
          /\ exit_code = 1 <=>
                \/ argv = <<>>
                \/ FolderMissing
                \/ critical
                \/ (Returned /\ ~results.success)
    /\ pc = "results" => (~results.success <=> (state.error # "" \/ GraphRaised))

C5_Witness ==
    /\ pc = "exit"
    /\ GraphRaised
    /\ state.error = ""
    /\ ~results.success
    /\ exit_code = 1

(***************************************************************************)
(* Properties of the version assigner (specification SpecVersioning)       *)
(***************************************************************************)
ReturnedAV == vpc = "returned_assign_versions"
ReturnedOCR == vpc = "returned_assign_versions_from_ocr"

\* the permutations of 1..n, and a list read through one of them
Perms(n) == {p \in [1..n -> 1..n] : \A i, j \in 1..n : i # j => p[i] # p[j]}
Permute(s, p) == [i \in 1..Len(s) |-> s[p[i]]]

\* the date string is a valid dd-mm-yyyy calendar date
Parses(f) ==
    /\ f.kind = "dmy"
    /\ \/ f.m \in {1, 3, 5, 7, 8, 10, 12} /\ f.d \in 1..31
       \/ f.m \in {4, 6, 9, 11} /\ f.d \in 1..30
       \/ f.m = 2 /\ f.d \in 1..28
       \/ f.m = 2 /\ f.d = 29 /\ f.y % 4 = 0 /\ (f.y % 100 # 0 \/ f.y % 400 = 0)

\* date a is earlier than date b
Earlier(a, b) ==
    \/ a.y < b.y
    \/ a.y = b.y /\ a.m < b.m
    \/ a.y = b.y /\ a.m = b.m /\ a.d < b.d

SameDay(a, b) == a.y = b.y /\ a.m = b.m /\ a.d = b.d

\* the category the documents of the input carry
CategoryOfInput(i) ==
    IF ReturnedAV
    THEN (IF in_classification[i].clasificacion = None THEN "otros"
          ELSE in_classification[i].clasificacion)
    ELSE (IF in_llm[i].raises THEN "otros"
          ELSE IF in_llm[i].categoria \in {"escritura", " ESCRITURA"} THEN "escritura"
          ELSE in_llm[i].categoria)

InputFilenames ==
    IF ReturnedAV
    THEN [i \in 1..Len(in_classification) |-> in_classification[i].filename]
    ELSE [i \in 1..Len(in_ocr) |-> in_ocr[i].filename]

\* C6: version contiguity. In the output of assign_versions and of
\* assign_versions_from_ocr the versions of every chain, in list order, are
\* 1..N, N being the number of documents of the category.
C6_VersionContiguity ==
    (ReturnedAV \/ ReturnedOCR) =>
        \A cat \in DOMAIN versionado :
            /\ \A i \in 1..Len(versionado[cat]) : versionado[cat][i].version = i
            /\ Len(versionado[cat]) =
                  Cardinality({i \in 1..Len(InputFilenames) : CategoryOfInput(i) = cat})

C6_Witness ==
    /\ ReturnedOCR
    /\ \E c1, c2 \in DOMAIN versionado :
          /\ Len(versionado[c1]) = 1
          /\ versionado[c1][1].version = 1
          /\ Len(versionado[c2]) = 2
          /\ versionado[c2][2].version = 2

\* x stands before y in a chain of assign_versions
BeforeAV(x, y) ==
    \/ Parses(x.fecha) /\ ~Parses(y.fecha)
    \/ Parses(x.fecha) /\ Parses(y.fecha) /\ Earlier(x.fecha, y.fecha)
    \/ /\ Parses(x.fecha) /\ Parses(y.fecha) /\ SameDay(x.fecha, y.fecha)
       /\ FilenameOrd[x.filename] < FilenameOrd[y.filename]
    \/ /\ ~Parses(x.fecha) /\ ~Parses(y.fecha)
       /\ FilenameOrd[x.filename] < FilenameOrd[y.filename]

\* C7: every chain of assign_versions lists the documents with a parseable
\* date first, ascending by (date, filename), then the others ascending by
\* filename, and the result is the same for every permutation of the inputs.
C7_DateThenFilename ==
    ReturnedAV =>
        /\ \A cat \in DOMAIN versionado :
              \A i, j \in 1..Len(versionado[cat]) :
                  i < j => BeforeAV(versionado[cat][i], versionado[cat][j])
        /\ \A p \in Perms(Len(in_classification)), q \in Perms(Len(in_dates)) :
              assign_versions(Permute(in_classification, p), Permute(in_dates, q))
                 = versionado

C7_Witness ==
    /\ ReturnedAV
    /\ \E cat \in DOMAIN versionado :
          /\ Len(versionado[cat]) = 3
          /\ versionado[cat][1].fecha = F_5_3_2019
          /\ versionado[cat][2].fecha = F_05_03_2019
          /\ ~Parses(versionado[cat][3].fecha)
          /\ in_classification[1].filename = versionado[cat][3].filename

\* C8: the chains of assign_versions_from_ocr do not depend on the order of
\* ocr_results, given the same category and date for each document.
C8_OrderIndependent ==
    ReturnedOCR =>
        \A p \in Perms(Len(in_ocr)) :
            assign_versions_from_ocr(Permute(in_ocr, p), Permute(in_llm, p))
               = versionado

\* C9: in every chain of assign_versions_from_ocr a document whose date does
\* not parse comes after all documents with a parseable date, and these
\* documents are in ascending order of filename among themselves.
C9_UnparseableTrail ==
    ReturnedOCR =>
        \A cat \in DOMAIN versionado :
            \A i, j \in 1..Len(versionado[cat]) :
                (i < j /\ ~Parses(versionado[cat][i].fecha)) =>
                    /\ ~Parses(versionado[cat][j].fecha)
                    /\ FilenameOrd[versionado[cat][i].filename]
                          < FilenameOrd[versionado[cat][j].filename]

\* the places <<category, index>> of the output that hold file f
PlacesOf(f) ==
    {ci \in UNION {{<<cat, i>> : i \in 1..Len(versionado[cat])} :
                      cat \in DOMAIN versionado} :
        versionado[ci[1]][ci[2]].filename = f}

RECURSIVE SumLen(_, _)
SumLen(d, cats) ==
    IF cats = {} THEN 0
    ELSE LET c == CHOOSE x \in cats : TRUE
         IN  Len(d[c]) + SumLen(d, cats \ {c})

\* C10: the versioning keeps every input document exactly once. Each file
\* is in exactly one chain, once, in the bucket named by its label ("otros"
\* when the label is missing or a chain raised for it), and the chains hold
\* as many documents as the input.
C10_EveryDocumentOnce ==
    (ReturnedAV \/ ReturnedOCR) =>
        /\ \A i \in 1..Len(InputFilenames) :
              /\ Cardinality(PlacesOf(InputFilenames[i])) = 1
              /\ \A ci \in PlacesOf(InputFilenames[i]) : ci[1] = CategoryOfInput(i)
        /\ SumLen(versionado, DOMAIN versionado) = Len(InputFilenames)

C10_Witness ==
    /\ ReturnedOCR
    /\ Len(in_ocr) = 3
    /\ in_llm[1].raises
    /\ ~in_llm[2].raises /\ in_llm[2].categoria = "contrato"
    /\ DOMAIN versionado = {"otros", "contrato", "escritura"}
    /\ versionado["otros"][1].filename = in_ocr[1].filename
    /\ versionado["contrato"][1].filename = in_ocr[2].filename

(***************************************************************************)
(* DocumentClassifierAgent                                                 *)
(***************************************************************************)
CATS == {"constitucion", "inscripcion", "publicacion", "cedula", "otros"}

\* the words the prompt of assign_versions_from_ocr asks the model to answer
PromptCategorias == {"escritura", "publicacion", "inscripcion", "cedula"}

\* _llm_fallback: cand = (raw or "").strip().lower(), kept only if in CATS
_llm_fallback(raw) ==
    LET cand == IF raw = None THEN "" ELSE StripLower(raw)
    IN  IF cand \in CATS THEN cand ELSE "otros"

\* classify_documents: one entry per document, labelled by _llm_fallback;
\* raws[i] is the model's answer for document i
classify_documents(documents_with_dates, raws) ==
    [i \in 1..Len(documents_with_dates) |->
        [filename |-> documents_with_dates[i].filename,
         clasificacion |-> _llm_fallback(raws[i]),
         fecha |-> documents_with_dates[i].fecha]]

\* the closed vocabulary of categories: the labels of either classifier and
\* the fallback
Vocabulario == CATS \cup PromptCategorias

\* C11: closed vocabulary. Every label classify_documents assigns and every
\* key of the versioning assign_versions_from_ocr returns is in the fixed
\* vocabulary or is "otros"; an answer outside it is mapped to "otros".
C11_ClosedVocabulary ==
    ReturnedOCR =>
        /\ \A e \in {classify_documents(
                        [i \in 1..Len(in_ocr) |->
                            [filename |-> in_ocr[i].filename,
                             text |-> in_ocr[i].text,
                             fecha |-> in_llm[i].fecha_texto]],
                        [i \in 1..Len(in_ocr) |-> in_llm[i].categoria])} :
              \A i \in 1..Len(e) : e[i].clasificacion \in CATS
        /\ DOMAIN versionado \subseteq Vocabulario

(***************************************************************************)
(* Properties of the reconciler (specification SpecReconciler)             *)
(***************************************************************************)
RecReturned == rpc = "returned"

\* OCR has text for the document of version k
HasText(k) == r_ocr[k].text # ""

\* the document of version k yields a non-empty value for field f
Yields(k, f) ==
    /\ HasText(k)
    /\ r_llm[k].kind = "json"
    /\ f \in DOMAIN r_llm[k].data
    /\ r_llm[k].data[f].kind # "empty"

\* the record holds a non-empty value for field f
Resolved(rec, f) == f \in DOMAIN rec /\ rec[f].kind # "empty"

\* every document of the chain has text and the model raises for none
AllTextsNoRaise ==
    \A k \in 1..Len(r_docs) : HasText(k) /\ r_llm[k].kind # "raise"

\* C12: backfill fills gaps. After a reconciliation over a chain whose
\* documents all have text, a field is empty or missing in the result only
\* if no document of the chain yielded a non-empty value for it, whatever
\* the newest document's answer holds (also when it omits the field or has
\* no keys).
C12_BackfillFillsGaps ==
    (RecReturned /\ AllTextsNoRaise) =>
        \A f \in Fields :
            ~Resolved(r_result, f) => \A k \in 1..Len(r_docs) : ~Yields(k, f)

NewestComplete ==
    /\ r_sorted # <<>>
    /\ \A f \in Fields : Yields(r_sorted[1].version, f)

\* C14: reconciliation stops as soon as no field is empty. No text is sent
\* to the model once empty_fields is empty, and when the newest document
\* yields every field no older document is sent at all.
C14_StopsWhenComplete ==
    /\ [][r_calls' # r_calls => (r_calls = <<>> \/ r_empty # <<>>)]_vars
    /\ [](NewestComplete => Len(r_calls) <= 1)

C14_Witness ==
    /\ RecReturned
    /\ Len(r_sorted) = 3
    /\ r_calls = <<r_sorted[1].filename, r_sorted[2].filename>>
    /\ r_empty = <<>>
    /\ \A f \in Fields : Resolved(r_result, f) /\ Yields(r_sorted[3].version, f)
    /\ r_result[CampoTexto].src = r_sorted[2].filename

\* every document with text gets a JSON answer that holds every field as a
\* string
AllAnswersWellFormed ==
    \A k \in 1..Len(r_docs) :
        HasText(k) =>
            /\ r_llm[k].kind = "json"
            /\ DOMAIN r_llm[k].data = Fields
            /\ \A f \in Fields : r_llm[k].data[f].kind \in {"empty", "str"}

\* C15: a document without text is skipped, the newest one included: the
\* reconciliation goes on with the other documents and the result holds
\* every field that one of them yields.
C15_NoTextSkipped ==
    (RecReturned /\ AllAnswersWellFormed) =>
        \A f \in Fields :
            (\E k \in 1..Len(r_docs) : Yields(k, f)) => Resolved(r_result, f)

\* the report node around a reconciler call that raised or returned
ReportStageAfter ==
    paso_8_report_generation(
        [create_initial_state EXCEPT
            !.ocr_results = r_ocr,
            !.versioning_results = [c \in {"escritura"} |-> r_docs]],
        rpc = "raised")

\* C16: a failure of the extraction is never fatal. Whatever the model
\* does for the documents of the chain (raise, answer text that is not
\* JSON, answer a value that is not a string), the reconciler returns and
\* the report node records no error.
C16_ExtractionNeverFatal ==
    rpc \in {"returned", "raised"} =>
        /\ RecReturned
        /\ ReportStageAfter.state.error = ""

(***************************************************************************)
(* Properties of the version comparer (specification SpecDiffer)           *)
(***************************************************************************)
ReturnedComparar == dpc = "returned_comparar_versiones"
ReturnedPaso4 == dpc = "returned_paso_4_escritura_comparison"

\* the categories the caller compares
ComparedCategories ==
    IF ReturnedComparar THEN DOMAIN d_versioning ELSE {"escritura"}

\* OCR has text for every document of the category's chain
AllTexts(cat) ==
    \A k \in 1..Len(d_versioning[cat]) :
        OcrText(d_ocr, d_versioning[cat][k].filename) # ""

C19_PairWithoutTextSkipped ==
    ReturnedComparar =>
        \A cat \in DOMAIN d_versioning :
            /\ \A i \in 1..Len(d_out[cat]) :
                  /\ OcrText(d_ocr, d_out[cat][i].de.filename) # ""
                  /\ OcrText(d_ocr, d_out[cat][i].a.filename) # ""
            /\ \A k \in 1..(Len(d_versioning[cat]) - 1) :
                  (/\ OcrText(d_ocr, d_versioning[cat][k].filename) # ""
                   /\ OcrText(d_ocr, d_versioning[cat][k + 1].filename) # "") =>
                      \E i \in 1..Len(d_out[cat]) :
                          /\ d_out[cat][i].de = d_versioning[cat][k]
                          /\ d_out[cat][i].a = d_versioning[cat][k + 1]

(***************************************************************************)
(* Comparison results of a pipeline run (specification Spec)               *)
(***************************************************************************)
\* process_carpeta returned the results of a run that ended without error
EndedWithoutError == pc \in {"results", "exit"} /\ Returned /\ results.success

\* the adjacent pairs <<k, k + 1>> of a chain whose two texts OCR holds
PairsWithText(chain) ==
    {k \in 1..(Len(chain) - 1) :
        /\ OcrText(state.ocr_results, chain[k].filename) # ""
        /\ OcrText(state.ocr_results, chain[k + 1].filename) # ""}

\* the comparisons are those of the pairs with text, in ascending order
HoldsAdjacentPairs(comparisons, chain) ==
    /\ Len(comparisons) = Cardinality(PairsWithText(chain))
    /\ \A k \in PairsWithText(chain) :
          \E i \in 1..Len(comparisons) :
              comparisons[i].de = chain[k] /\ comparisons[i].a = chain[k + 1]
    /\ \A i, j \in 1..Len(comparisons) :
          i < j => comparisons[i].de.version < comparisons[j].de.version

\* C18 as stated: after a run that ends without error, comparison_results
\* holds, for every category of versioning_results with at least 2
\* versions, the comparisons of the category's adjacent pairs.
C18_EveryCategoryCompared ==
    EndedWithoutError =>
        \A cat \in DOMAIN state.versioning_results :
            Len(state.versioning_results[cat]) >= 2 =>
                /\ cat \in DOMAIN state.comparison_results
                /\ HoldsAdjacentPairs(state.comparison_results[cat],
                                      state.versioning_results[cat])

\* C18 amended: only the category "escritura" is compared. After a run that
\* ends without error comparison_results has no key but "escritura"; it is
\* empty when there is no escritura document, and otherwise it holds under
\* "escritura" the comparisons of the adjacent escritura pairs with text.
C18_EscrituraCompared ==
    EndedWithoutError =>
        /\ DOMAIN state.comparison_results \subseteq {"escritura"}
        /\ IF "escritura" \in DOMAIN state.versioning_results
           THEN /\ "escritura" \in DOMAIN state.comparison_results
                /\ HoldsAdjacentPairs(state.comparison_results["escritura"],
                                      state.versioning_results["escritura"])
           ELSE state.comparison_results = EmptyDict

C18_Witness ==
    /\ EndedWithoutError
    /\ "escritura" \in DOMAIN state.versioning_results
    /\ Len(state.versioning_results["escritura"]) = 2
    /\ Len(state.comparison_results["escritura"]) = 1
    /\ state.comparison_results["escritura"][1].de.version = 1
    /\ state.comparison_results["escritura"][1].a.version = 2

(***************************************************************************)
(* Properties of the OCR stage (specification SpecOcr)                     *)
(***************************************************************************)
\* OCR failed for file i: an error that is not transient, or transient
\* errors in every attempt
OcrFailed(i) == o_fates[i] \in {"error", "exhausted"}

\* _analyze_file handed back a record for file i
GaveRecord(i) == o_fates[i] \in {"ocr", "cache"}

\* OCR failed for some but not all of the files analysed so far
PartialFailure ==
    /\ \E i \in 1..Len(o_fates) : OcrFailed(i)
    /\ \E i \in 1..Len(o_fates) : ~OcrFailed(i)

\* the files that gave a record, in the order of the walk
FilesWithRecord ==
    SelectSeq([i \in 1..Len(o_fates) |-> [file |-> o_files[i], fate |-> o_fates[i]]],
              LAMBDA e : e.fate \in {"ocr", "cache"})

\* the exit code of the run when no later node meets an exception: every
\* document an escritura of 10-01-2020
ExitCodeOfRest(st) ==
    LET n == Len(st.ocr_results)
        s2 == paso_2_versioning(st, FALSE,
                  [i \in 1..n |-> [raises |-> FALSE, categoria |-> "escritura",
                                   fecha_texto |-> F_10_01_2020]]).state
        s3 == paso_3_vectorization(s2, FALSE, TRUE).state
        s4 == paso_4_escritura_comparison(s3, FALSE,
                  [i \in 1..(n - 1) |-> "cambios"]).state
        s5 == paso_5_legalizacion(s4, FALSE, <<>>).state
        s8 == paso_8_report_generation(s5, FALSE).state
    IN  MainExitCode(ProcessCarpetaResults(s8))

\* C20: partial-failure isolation. When OCR fails for some but not all
\* files, analyze_folder does not raise and returns, in the order of the
\* walk, one record for each file that did not fail and was not skipped;
\* paso_1_ocr then records no error, and with no exception in a later node
\* the run ends with success = true and exit code 0.
C20_PartialFailureIsolation ==
    PartialFailure =>
        /\ opc \notin {"raised", "paso_1_except_analyze_folder"}
        /\ opc \in {"returned", "paso_1_returned", "paso_1_except"} =>
              /\ Len(o_results) = Len(FilesWithRecord)
              /\ \A k \in 1..Len(o_results) :
                    /\ o_results[k].sha1 = FilesWithRecord[k].file.sha1
                    /\ FilesWithRecord[k].fate = "ocr" =>
                          /\ o_results[k].path = FilesWithRecord[k].file.path
                          /\ o_results[k].filename
                                = Basename(FilesWithRecord[k].file.path)
        /\ opc = "paso_1_returned" =>
              /\ o_state.error = ""
              /\ o_state.ocr_results = o_results
              /\ o_results # <<>> => ExitCodeOfRest(o_state) = 0

C20_Witness ==
    /\ opc = "paso_1_returned"
    /\ o_fates = <<"ocr", "exhausted">>
    /\ o_sleeps = <<1, 2, 4, 8>>
    /\ Len(o_results) = 1
    /\ o_results[1].path = o_files[1].path
    /\ o_state.error = ""
    /\ ExitCodeOfRest(o_state) = 0

(***************************************************************************)
(* The artifact of a node and the pipeline error                           *)
(***************************************************************************)
\* the nodes that write their artifact inside a try block
NodosConTry == {"paso_1_ocr", "paso_2_versioning", "paso_4_escritura_comparison",
                "paso_5_legalizacion", "paso_8_report_generation"}

\* the write of a node's artifact raised in this step
WriteFailedNow(n) == pc = n /\ n \in write_failed'

\* the states node n returns for state st when nothing raises
Logrado(n, st) ==
    CASE n = "paso_1_ocr" ->
           {paso_1_ocr(st, FALSE, ocr).state : ocr \in OcrOutcomes(MaxFiles)}
      [] n = "paso_2_versioning" ->
           {paso_2_versioning(st, FALSE, llm).state :
               llm \in [1..Len(st.ocr_results) ->
                           LlmOutcomes(PipeLabels, PipeFechas)]}
      [] n = "paso_4_escritura_comparison" ->
           {paso_4_escritura_comparison(st, FALSE, diffs).state :
               diffs \in [1..(Len(DictGet(st.versioning_results,
                                          "escritura", <<>>)) - 1)
                            -> DiffOutcomes]}
      [] n = "paso_5_legalizacion" ->
           {paso_5_legalizacion(st, FALSE, poderes).state :
               poderes \in PoderesOutcomes}
      [] n = "paso_8_report_generation" ->
           {paso_8_report_generation(st, FALSE).state}

\* C21: when the write of the JSON artifact raises in paso_1, paso_2,
\* paso_4, paso_5 or paso_8, the node returns what it returns when nothing
\* raises: the state with the result it computed stored under the node's
\* key, and with the error it had.
C21_PersistenceFailureNotFatal ==
    [][\A n \in NodosConTry :
          WriteFailedNow(n) =>
              /\ state' \in Logrado(n, state)
              /\ state'.error = state.error]_vars

(***************************************************************************)
(* The OCR cache (specification SpecOcr)                                   *)
(***************************************************************************)
\* the cache events of file number i of the walk
EventosDe(i) ==
    {o_events[k].ev : k \in {j \in 1..Len(o_events) : o_events[j].idx = i}}

\* _analyze_file has gone on to the analysis service for file number i
Recomputed(i) ==
    IF i <= Len(o_fates) THEN o_fates[i] \in {"ocr", "error", "exhausted"}
    ELSE opc = "attempt" /\ o_idx = i

\* C22: the cache is advisory. analyze_folder raises only for a folder
\* that does not exist; a file whose cache entry is missing or cannot be
\* loaded is sent to the analysis service (unless its extension is not
\* allowed); a file whose record could not be written to the cache still
\* gives its record.
C22_CacheAdvisory ==
    /\ opc \in {"raised", "paso_1_except_analyze_folder"} => ~o_isdir
    /\ \A i \in 1..Len(o_files) :
          /\ (EventosDe(i) \cap {"miss", "load_failed"} # {}
              /\ o_files[i].kind = "ok") => Recomputed(i)
          /\ "save_failed" \in EventosDe(i) =>
                /\ o_fates[i] = "ocr"
                /\ \E k \in 1..Len(o_results) :
                      o_results[k].path = o_files[i].path

\* the entry of the first file could not be loaded and the record made for
\* the second could not be saved; both files gave their record
C22_Witness ==
    /\ opc = "paso_1_returned"
    /\ Len(o_files) = 2
    /\ EventosDe(1) = {"load_failed", "saved"}
    /\ EventosDe(2) = {"miss", "save_failed"}
    /\ Len(o_state.ocr_results) = 2

(***************************************************************************)
(* The order of the stages (specification Spec)                            *)
(***************************************************************************)
\* OCR, versioning, vectorization, escritura comparison, legalization, report
Orden ==
    <<"paso_1_ocr", "paso_2_versioning", "paso_3_vectorization",
      "paso_4_escritura_comparison", "paso_5_legalizacion",
      "paso_8_report_generation">>

\* C23: the nodes are entered in the fixed order of the edges, each at most
\* once, and the node that follows a node that returned is the one its edge
\* names, whatever the state holds.
C23_FixedOrder ==
    /\ [](/\ Len(entered) <= Len(Orden)
          /\ \A i \in 1..Len(entered) : entered[i] = Orden[i])
    /\ [][(pc \in DOMAIN Edge) =>
             pc' \in {Edge[pc], "process_carpeta_except"}]_vars

\* the six nodes were entered although the first one recorded an error
C23_Witness ==
    /\ pc = "END"
    /\ entered = Orden
    /\ first_error = ErrPaso1
    /\ artifacts = {}

(***************************************************************************)
(* The order of the reconciler (specification SpecReconciler)              *)
(***************************************************************************)
\* C24: the reconciler goes through the escritura chain in the reverse of
\* its version order: escritura_docs_sorted is the chain reversed, and the
\* first document sent to the model is the one of the highest version.
C24_ReverseVersionOrder ==
    r_sorted # <<>> =>
        /\ r_sorted = Reverse(r_docs)
        /\ r_calls # <<>> => r_calls[1] = r_docs[Len(r_docs)].filename

\* C25: in one pass of the reconciler the text of a document is sent to the
\* extraction at most once: no file is named twice in the calls made, and
\* there are no more calls than documents in the chain.
C25_AtMostOncePerPass ==
    /\ Len(r_calls) <= Len(r_docs)
    /\ \A i, j \in 1..Len(r_calls) : i < j => r_calls[i] # r_calls[j]

\* a pass that had to ask every document of a chain of three
C25_Witness ==
    /\ rpc = "returned"
    /\ Len(r_docs) = 3
    /\ Len(r_calls) = 3
    /\ r_empty # <<>>

(***************************************************************************)
(* The retry loop of _analyze_file (specification SpecOcr)                 *)
(***************************************************************************)
\* the waits of a file whose every attempt met a transient failure
Esperas == <<1, 2, 4, 8>>

\* _analyze_file ended with None for the current file in this step
ReturnsNoneNow ==
    /\ Len(o_fates') = Len(o_fates) + 1
    /\ o_fates'[Len(o_fates')] \in {"error", "exhausted"}

\* C26: the analysis service is called at most max_retries times for a
\* file; a further attempt is made only after a transient failure and a
\* wait, the waits being 1, 2, 4, 8; after another failure, or after the
\* last attempt, _analyze_file returns None for the file: no record is
\* appended, nothing is raised and analyze_folder goes to the next file.
C26_RetryBackoff ==
    /\ [](/\ o_attempt <= max_retries
          /\ opc = "attempt" =>
                /\ o_attempt < max_retries
                /\ Len(o_sleeps) = o_attempt
          /\ Len(o_sleeps) <= Len(Esperas)
          /\ o_sleeps = SubSeq(Esperas, 1, Len(o_sleeps)))
    /\ [][(opc = "attempt") =>
             /\ opc' = "attempt" =>
                   /\ o_attempt' = o_attempt + 1
                   /\ o_sleeps' = Append(o_sleeps, o_delay)
             /\ ReturnsNoneNow =>
                   /\ opc' = "file"
                   /\ o_results' = o_results
                   /\ o_idx' = o_idx + 1
             /\ opc' # "raised"]_vars

\* a file given up after four transient failures, then one that failed at
\* its second attempt with another error
C26_Witness ==
    /\ o_fates = <<"exhausted", "error">>
    /\ o_sleeps = <<1>>
    /\ o_delay = 2
    /\ o_results = <<>>

(***************************************************************************)
(* The silent skip of the legalization node (specification Spec)           *)
(***************************************************************************)
\* paso_5_legalizacion hands back the state it was given
SilentSkip == pc = "paso_5_legalizacion" /\ state' = state

\* every node got past its precondition check: each wrote its artifact,
\* but for the comparison node when the run has no escritura
BodiesExecuted ==
    /\ entered = Orden
    /\ Orden[4] \notin artifacts =>
          ~Truthy(DictGet(state.versioning_results, "escritura", <<>>))
    /\ \A i \in {1, 2, 3, 5, 6} : Orden[i] \in artifacts

\* C27: the legalization node returns the state unchanged only in a run
\* whose error is already set; a run that ends with success = true has
\* non-empty ocr_results and versioning_results and has executed the body
\* of every node.
C27_SilentSkipOnlyAfterError ==
    /\ [][SilentSkip => state.error # ""]_vars
    /\ []((Returned /\ pc = "results" /\ results.success) =>
             /\ Truthy(state.ocr_results)
             /\ Truthy(state.versioning_results)
             /\ BodiesExecuted)

\* the legalization node was skipped: versioning had raised, the two nodes
\* in between had recorded their own messages
C27_Witness ==
    /\ pc = "paso_8_report_generation"
    /\ first_error = ErrPaso2
    /\ state.error = MsgPaso4
    /\ Truthy(state.ocr_results)
    /\ ~Truthy(state.versioning_results)
    /\ ~Truthy(state.legalization_results)

(***************************************************************************)
(* The file a record names (specification SpecOcr)                         *)
(***************************************************************************)
\* the files of the folder have pairwise distinct names
DistinctNames ==
    \A i, j \in 1..Len(o_files) :
        i < j => Basename(o_files[i].path) # Basename(o_files[j].path)

\* C28: every record of results carries the filename and the path of the
\* file it was returned for, the records served from the cache included;
\* so the filenames of results are pairwise distinct when the names of the
\* files are.
C28_RecordNamesItsFile ==
    /\ Len(o_results) = Len(FilesWithRecord)
    /\ \A k \in 1..Len(o_results) :
          /\ o_results[k].path = FilesWithRecord[k].file.path
          /\ o_results[k].filename = Basename(FilesWithRecord[k].file.path)
    /\ DistinctNames =>
          \A k, l \in 1..Len(o_results) :
              k < l => o_results[k].filename # o_results[l].filename


(***************************************************************************)
(* C29                                                                     *)
(***************************************************************************)
\* the place of a code in the catalogue
CodePos(id) == CHOOSE i \in 1..Len(l_catalog) : l_catalog[i].id = id

\* the highest version among the escrituras
MaxVersion ==
    CHOOSE v \in {l_escrituras[i].version : i \in 1..Len(l_escrituras)} :
        \A i \in 1..Len(l_escrituras) : l_escrituras[i].version <= v

\* the escritura with the highest version has no text
BaseTextEmpty ==
    \E i \in 1..Len(l_escrituras) :
        /\ l_escrituras[i].version = MaxVersion
        /\ OcrText(l_ocr, l_escrituras[i].filename) = ""

\* the verifications of the current code that granted
Granted == SelectSeq(l_sent, LAMBDA s : s.ver.otorgado)

PoderesWellFormed ==
    /\ \A i \in 1..Len(l_poderes) :
          /\ l_poderes[i].otorgado = TRUE
          /\ l_poderes[i].version = MaxVersion
          /\ \E j \in 1..Len(l_catalog) : l_catalog[j].id = l_poderes[i].id
    /\ \A i, j \in 1..Len(l_poderes) :
          i < j => CodePos(l_poderes[i].id) < CodePos(l_poderes[j].id)

ReturnedAsStated ==
    lpc = "returned" =>
        IF l_escrituras = <<>>
        THEN l_out.documento_base = None /\ l_out.poderes = <<>>
        ELSE /\ l_out.documento_base.version = MaxVersion
             /\ l_out.poderes = l_poderes
             /\ BaseTextEmpty => l_out.poderes = <<>>

NoCallWithoutBaseText ==
    (lpc # "idle" /\ (l_escrituras = <<>> \/ BaseTextEmpty)) =>
        /\ lpc \in {"call", "returned"}
        /\ l_sent = <<>>
        /\ l_poderes = <<>>

Altas == SelectSeq(Granted, LAMBDA s : s.ver.confianza = "alta")

\* the first granted candidate with confianza alta, else the first granted
Elegido == IF Altas # <<>> THEN Altas[1] ELSE Granted[1]

\* C30: for each code the agent selects, among the candidate chunks verified
\* as granted, the first with confianza 'alta' if there is one and otherwise
\* the first granted one; after a granted candidate with confianza 'alta'
\* no further chunk of that code is sent to the verifier.
C30_BestCandidate ==
    /\ lpc \in {"code_done", "code"} =>
          /\ (l_best = <<>>) <=> (Granted = <<>>)
          /\ l_best # <<>> =>
                /\ l_best[1].evidencia = Elegido.chunk
                /\ l_best[1].confianza = Elegido.ver.confianza
    /\ (lpc = "code" /\ l_best # <<>>) =>
          l_poderes[Len(l_poderes)] = l_best[1]
    /\ \A i \in 1..(Len(l_sent) - 1) :
          ~(l_sent[i].ver.otorgado /\ l_sent[i].ver.confianza = "alta")

\* a code whose first granted candidate had confianza media and whose
\* second had alta: the second is the power
C30_Witness ==
    /\ lpc = "code"
    /\ Len(l_sent) = 2
    /\ l_sent[1].ver = [otorgado |-> TRUE, confianza |-> "media"]
    /\ l_sent[2].ver = [otorgado |-> TRUE, confianza |-> "alta"]
    /\ l_poderes # <<>>
    /\ l_poderes[Len(l_poderes)].evidencia = l_sent[2].chunk

=============================================================================
